---- MODULE Spec2Model ----
(***************************************************************************)
(* Recruiting pipeline core of the role page: the Kanban board (drag       *)
(* moves, status requests, candidate list refetch), the candidate card's   *)
(* checklist, the evaluation chat with its debounced persistence, the      *)
(* drag collision resolver, the evaluation eligibility filter, the stored  *)
(* status (column, flags, color) of the candidates, the interview helper's *)
(* required-fields view and the displayed candidate order.                 *)
(*                                                                         *)
(* The module holds one state machine per concern.  Each has its own       *)
(* specification (SpecBoard, SpecCard, SpecChat, SpecResolver, SpecEval,   *)
(* SpecStatus, SpecInterview, SpecSort); the variables of the other        *)
(* concerns stay at their initial value.                                   *)
(***************************************************************************)
EXTENDS Integers, Sequences, FiniteSets, TLC

VARIABLES
  \* ---- Kanban board (RolePage candidates state, KanbanBoard.tsx)
  serverCandidates,    \* the persistence collaborator's candidate list of the role
  candidates,          \* RolePage state: the list the board renders
  activeCandidate,     \* KanbanBoard state: the record shown in the drag overlay
  dragging,            \* id of the card being dragged (the drag context's active), or Null
  statusRequests,      \* PUT candidate-status requests in flight
  listRequests,        \* GET candidates-by-role requests in flight
  alerts,              \* alert() notifications shown so far
  gestures,            \* user gestures on the board handled so far
  lastDrop,            \* the DragEndEvent handled last: its active and over ids
  \* ---- candidate card checklist (CandidateCard.tsx)
  cardServerChecklist, \* the collaborator's stored checklist of the candidate
  candidateChecklist,  \* candidate.checklist: the prop the card gets from the list
  checklist,           \* CandidateCard state: the local checklist
  checklistRequests,   \* PUT candidate-status requests carrying a checklist, in flight
  cardListRequests,    \* GET candidates-by-role requests in flight (onUpdate)
  toggles,             \* checklist clicks handled so far
  interviewUpload,     \* the card's interview upload in flight, or NoUpload
  uploads,             \* interview uploads started so far
  \* ---- evaluation chat (RoleDetailPage, RolePage, EvaluationChat.tsx)
  routeId,             \* RoleDetailPage: router.query.id
  roleRequests,        \* fetchRole requests in flight (the id each asks for)
  role,                \* RolePage prop: the id of the role object it was given
  activeTab,           \* RolePage state
  evaluationMessages,  \* RolePage state: the in-memory transcript
  timer,               \* the pending setTimeout of the debounce effect, or NoTimer
  isLoading,           \* EvaluationChat state of the mounted chat view
  chatStore,           \* the collaborator's stored transcript of each role
  chatRequests,        \* evaluate, load, save and delete requests in flight
  burst,               \* the current burst of transcript changes: its changes,
                       \* the ms since the last one, the debounced saves it got
  sends,               \* questions sent so far
  navigations,         \* route changes and role refreshes so far
  cleared,             \* the chat was cleared and no question was sent since
  \* ---- stored status of the candidates (handleDragEnd, CandidateCard buttons)
  statusRecords,       \* the collaborator's record of each candidate, with
                       \* "written": the core has written its color
  outreachMessage,     \* CandidateCard state per card: an outreach message is held
  mutationFailures,    \* status mutations that failed so far
  mutationAlerts,      \* alert() notifications of failed mutations so far
  \* ---- interview helper: the required-fields view (InterviewHelper.tsx)
  roleFields,          \* role.candidate_requirement_fields of the role prop
  serverInterview,     \* the collaborator's interview record of the candidate
  interviewState,      \* InterviewHelper state "interview"
  requiredFields,      \* InterviewHelper state: the required-fields view
  manualResponses,     \* InterviewHelper state: the manual form's responses
  interviewRequests,   \* interview requests in flight (fetch, upload, manual save)
  interviewOps,        \* role changes, uploads, saves and edits so far
  \* ---- displayed candidate order (RolePage sortedCandidates)
  pageCandidates,      \* RolePage state candidates, as the list response gave it
  sortedCandidates,    \* the sorted copy computed by the render
  sortPc,              \* "list": list held, "rendered": sorted copy computed
  \* ---- collision resolver (KanbanBoard.tsx, createKanbanCollisionDetection)
  activeColumn,        \* getActiveColumn(args.active.id)
  rectCollisions,      \* rectIntersection(args)
  pointerCollisions,   \* pointerWithin(args)
  cornerCollisions,    \* closestCorners(args)
  collisions,          \* what the detection function returned for the frame
  resolverPc,          \* "frame": inputs measured, "resolved": function returned
  \* ---- evaluation eligibility (evaluate endpoint, role page interview grid)
  all_candidates,            \* candidates of the role, each with its interview
  evaluation_candidates,     \* the active evaluation set (ids)
  sent_to_client_candidates, \* the reference-only set (ids)
  evalPc                     \* "request": received, "filtered": sets computed

boardVars == <<serverCandidates, candidates, activeCandidate, dragging,
               statusRequests, listRequests, alerts, gestures, lastDrop>>
cardVars == <<cardServerChecklist, candidateChecklist, checklist, checklistRequests,
              cardListRequests, toggles, interviewUpload, uploads>>
chatVars == <<routeId, roleRequests, role, activeTab, evaluationMessages, timer, isLoading,
              chatStore, chatRequests, burst, sends, navigations, cleared>>
statusVars == <<statusRecords, outreachMessage, mutationFailures, mutationAlerts>>
interviewVars == <<roleFields, serverInterview, interviewState, requiredFields,
                   manualResponses, interviewRequests, interviewOps>>
sortVars == <<pageCandidates, sortedCandidates, sortPc>>
resolverVars == <<activeColumn, rectCollisions, pointerCollisions, cornerCollisions,
                  collisions, resolverPc>>
evalVars == <<all_candidates, evaluation_candidates, sent_to_client_candidates, evalPc>>
vars == <<boardVars, cardVars, chatVars, resolverVars, evalVars, statusVars, interviewVars, sortVars>>

\* What the actions of one concern leave alone: the other concerns.
notBoard == <<cardVars, chatVars, resolverVars, evalVars, statusVars, interviewVars, sortVars>>
notCard == <<boardVars, chatVars, resolverVars, evalVars, statusVars, interviewVars, sortVars>>
notChat == <<boardVars, cardVars, resolverVars, evalVars, statusVars, interviewVars, sortVars>>
notResolver == <<boardVars, cardVars, chatVars, evalVars, statusVars, interviewVars, sortVars>>
notEval == <<boardVars, cardVars, chatVars, resolverVars, statusVars, interviewVars, sortVars>>
notStatus == <<boardVars, cardVars, chatVars, resolverVars, evalVars, interviewVars, sortVars>>
notInterview == <<boardVars, cardVars, chatVars, resolverVars, evalVars, statusVars, sortVars>>
notSort == <<boardVars, cardVars, chatVars, resolverVars, evalVars, statusVars, interviewVars>>

\* JavaScript null / undefined, and an absent record.
Null == "null"

\* The three pipeline columns.
COLUMN_IDS == {"outreach", "follow-up", "evaluation"}

\* Ids of the candidates (cards) of the role.
CardIds == {"c1", "c2"}

\* Every droppable of the board: the three column drop zones and the cards.
DroppableIds == COLUMN_IDS \cup CardIds

\* The elements of a sequence.
Range(s) == {s[i] : i \in 1..Len(s)}

\* Array.prototype.filter with the predicate given as the set of kept values.
RECURSIVE FilterSeq(_, _)
FilterSeq(s, keep) ==
  IF s = <<>> THEN <<>>
  ELSE IF Head(s) \in keep THEN <<Head(s)>> \o FilterSeq(Tail(s), keep)
       ELSE FilterSeq(Tail(s), keep)

\* Sequences without repetition, of length at most n, over the set S.
RECURSIVE DistinctSeqs(_, _)
DistinctSeqs(S, n) ==
  IF n = 0 THEN {<<>>}
  ELSE LET shorter == DistinctSeqs(S, n - 1)
       IN shorter \cup UNION {{Append(s, x) : x \in S \ Range(s)} : s \in shorter}

\* JavaScript truthiness of a string-like value: null, undefined and '' are falsy.
Truthy(v) == v \notin {Null, ""}


(***************************************************************************)
(* Kanban board                                                            *)
(***************************************************************************)

\* Status requests in flight at once.
MaxStatusRequests == 2

\* Candidate-list requests in flight at once.
MaxListRequests == 2

\* User gestures (drags) in one run of the board.
MaxGestures == 2

\* Notifications counted.
MaxAlerts == 2

\* Display colors the board writes.
Colors == {"amber-transparent", "amber-solid"}

\* Candidate records of the list: id, column (unset is possible), color.
CandidateRecords == [id : CardIds, column : COLUMN_IDS \cup {Null}, color : Colors]

\* No candidate (activeCandidate is null; Array.prototype.find found nothing).
NoCandidate == [absent |-> TRUE]

\* The drag ended over nothing (event.over is null).
NoOver == "no-over"

\* No drag has ended yet.
NoDrop == [active |-> Null, over |-> Null]

\* candidates.find((c) => c.id === id)
FindCandidate(list, id) ==
  LET hits == {i \in 1..Len(list) : list[i].id = id}
  IN IF hits = {} THEN NoCandidate
     ELSE list[CHOOSE i \in hits : \A j \in hits : i <= j]

\* getCandidatesForColumn: the cards a column renders.
getCandidatesForColumn(list, columnId) ==
  FilterSeq(list, {c \in Range(list) : c.column = columnId})

\* Ids of the cards the board renders (the sortable droppables).
RenderedCards(list) ==
  {c.id : c \in UNION {Range(getCandidatesForColumn(list, col)) : col \in COLUMN_IDS}}

\* ResolveColumn that takes a drop on a card for a drop on outreach.
ResolveColumnCardAsOutreach(list, over) ==
  IF over \in COLUMN_IDS THEN over ELSE "outreach"

\* handleDragEnd, target resolution: over.id is a column id or the id of a
\* card; Null stands for the early return on a card without a column.
ResolveColumn(list, over) ==
  IF over \in COLUMN_IDS THEN over
  ELSE LET targetCandidate == FindCandidate(list, over)
       IN IF targetCandidate = NoCandidate THEN Null
          ELSE IF ~Truthy(targetCandidate.column) THEN Null
          ELSE targetCandidate.column

\* NewColor that keeps the stored color.
NewColorKeepStored(candidate, newColumn) == candidate.color

\* handleDragEnd, "Update color based on column".
NewColor(candidate, newColumn) ==
  IF newColumn = "outreach" THEN "amber-transparent"
  ELSE IF newColumn = "follow-up" THEN "amber-solid"
  ELSE IF newColumn = "evaluation" THEN "amber-solid"
  ELSE candidate.color

\* MoveRequest without the "already in the same column" return.
MoveRequestNoSameColumnReturn(list, candidateId, over) ==
  LET newColumn == ResolveColumn(list, over)
      candidate == FindCandidate(list, candidateId)
  IN IF over = NoOver THEN <<>>
     ELSE IF newColumn = Null THEN <<>>
     ELSE IF candidate = NoCandidate THEN <<>>
     ELSE <<[candidateId |-> candidateId,
             body |-> [column |-> newColumn, color |-> NewColor(candidate, newColumn)],
             applied |-> FALSE]>>

\* MoveRequest without the returns on a missing target and on a target
\* without a column.
MoveRequestNoTargetCheck(list, candidateId, over) ==
  LET newColumn == ResolveColumn(list, over)
      candidate == FindCandidate(list, candidateId)
  IN IF candidate = NoCandidate THEN <<>>
     ELSE IF candidate.column = newColumn THEN <<>>
     ELSE <<[candidateId |-> candidateId,
             body |-> [column |-> newColumn, color |-> NewColor(candidate, newColumn)],
             applied |-> FALSE]>>

\* The status request a drop issues: the empty sequence when handleDragEnd
\* returns early, else the one PUT with column and color.
MoveRequest(list, candidateId, over) ==
  LET newColumn == ResolveColumn(list, over)
      candidate == FindCandidate(list, candidateId)
  IN IF over = NoOver THEN <<>>
     ELSE IF newColumn = Null THEN <<>>
     ELSE IF candidate = NoCandidate THEN <<>>
     ELSE IF candidate.column = newColumn THEN <<>>
     ELSE <<[candidateId |-> candidateId,
             body |-> [column |-> newColumn, color |-> NewColor(candidate, newColumn)],
             applied |-> FALSE]>>

\* PUT candidate-status at the collaborator: the fields of the body replace
\* the stored ones.
ApplyStatus(list, req) ==
  [i \in 1..Len(list) |->
     IF list[i].id = req.candidateId
     THEN [list[i] EXCEPT !.column = req.body.column, !.color = req.body.color]
     ELSE list[i]]

\* Removal of the i-th element of a sequence.
RemoveAt(s, i) == SubSeq(s, 1, i - 1) \o SubSeq(s, i + 1, Len(s))

\* sortedCandidates, the column a candidate is ranked by: a.column || 'outreach'.
SortColumn(candidate) ==
  IF Truthy(candidate.column) THEN candidate.column ELSE "outreach"

\* The role page is open: the collaborator holds the role's candidates, the
\* list state is still empty and the first fetchCandidates is in flight.
InitBoard ==
  /\ serverCandidates \in
       {<<c1, c2>> : c1 \in {c \in CandidateRecords : c.id = "c1"},
                     c2 \in {c \in CandidateRecords : c.id = "c2"}}
  /\ candidates = <<>>
  /\ activeCandidate = NoCandidate
  /\ dragging = Null
  /\ statusRequests = <<>>
  /\ listRequests = <<[served |-> FALSE, candidates |-> <<>>]>>
  /\ alerts = 0
  /\ gestures = 0
  /\ lastDrop = NoDrop

\* fetchCandidates, the request reaching the collaborator.
ServeList(i) ==
  /\ i \in 1..Len(listRequests)
  /\ ~listRequests[i].served
  /\ listRequests' = [listRequests EXCEPT ![i] =
                        [served |-> TRUE, candidates |-> serverCandidates]]
  /\ UNCHANGED <<notBoard, lastDrop, serverCandidates, candidates, activeCandidate, dragging,
                 statusRequests, alerts, gestures>>

\* fetchCandidates, the response: setCandidates(response.data.candidates || []).
ListResponse(i) ==
  /\ i \in 1..Len(listRequests)
  /\ listRequests[i].served
  /\ candidates' = listRequests[i].candidates
  /\ listRequests' = RemoveAt(listRequests, i)
  /\ UNCHANGED <<notBoard, lastDrop, serverCandidates, activeCandidate, dragging, statusRequests, alerts,
                 gestures>>

\* fetchCandidates, the request failing: logged, the list state is kept.
ListFailure(i) ==
  /\ i \in 1..Len(listRequests)
  /\ listRequests' = RemoveAt(listRequests, i)
  /\ UNCHANGED <<notBoard, lastDrop, serverCandidates, candidates, activeCandidate, dragging,
                 statusRequests, alerts, gestures>>

\* handleDragStart on a rendered card.
handleDragStart(id) ==
  /\ dragging = Null
  /\ gestures < MaxGestures
  /\ id \in RenderedCards(candidates)
  /\ activeCandidate' = FindCandidate(candidates, id)
  /\ dragging' = id
  /\ gestures' = gestures + 1
  /\ UNCHANGED <<notBoard, lastDrop, serverCandidates, candidates, statusRequests, listRequests, alerts>>

\* handleDragEnd up to the await: the overlay is cleared and, unless the
\* handler returns early, the status request is sent.
handleDragEnd(over) ==
  /\ dragging # Null
  /\ over \in {NoOver} \cup COLUMN_IDS \cup RenderedCards(candidates)
  /\ Len(statusRequests) + Len(MoveRequest(candidates, dragging, over)) <= MaxStatusRequests
  /\ activeCandidate' = NoCandidate
  /\ dragging' = Null
  /\ lastDrop' = [active |-> dragging, over |-> over]
  /\ statusRequests' = statusRequests \o MoveRequest(candidates, dragging, over)
  /\ UNCHANGED <<notBoard, serverCandidates, candidates, listRequests, alerts, gestures>>

\* The status request reaching the collaborator.
ServeStatus(i) ==
  /\ i \in 1..Len(statusRequests)
  /\ ~statusRequests[i].applied
  /\ serverCandidates' = ApplyStatus(serverCandidates, statusRequests[i])
  /\ statusRequests' = [statusRequests EXCEPT ![i].applied = TRUE]
  /\ UNCHANGED <<notBoard, lastDrop, candidates, activeCandidate, dragging, listRequests, alerts, gestures>>

\* handleDragEnd after the await, success: onUpdate() refetches the list.
StatusSuccess(i) ==
  /\ i \in 1..Len(statusRequests)
  /\ statusRequests[i].applied
  /\ Len(listRequests) < MaxListRequests
  /\ statusRequests' = RemoveAt(statusRequests, i)
  /\ listRequests' = Append(listRequests, [served |-> FALSE, candidates |-> <<>>])
  /\ UNCHANGED <<notBoard, lastDrop, serverCandidates, candidates, activeCandidate, dragging, alerts,
                 gestures>>

\* StatusFailure with the refetch of the success path also in the catch block.
StatusFailureWithRefetch(i) ==
  /\ i \in 1..Len(statusRequests)
  /\ alerts < MaxAlerts
  /\ Len(listRequests) < MaxListRequests
  /\ statusRequests' = RemoveAt(statusRequests, i)
  /\ listRequests' = Append(listRequests, [served |-> FALSE, candidates |-> <<>>])
  /\ alerts' = alerts + 1
  /\ UNCHANGED <<notBoard, lastDrop, serverCandidates, candidates, activeCandidate,
                 dragging, gestures>>

\* handleDragEnd after the await, failure (the request or its response was
\* lost, before or after the collaborator applied it): the catch block.
StatusFailure(i) ==
  /\ i \in 1..Len(statusRequests)
  /\ alerts < MaxAlerts
  /\ statusRequests' = RemoveAt(statusRequests, i)
  /\ alerts' = alerts + 1
  /\ UNCHANGED <<notBoard, lastDrop, serverCandidates, candidates, activeCandidate, dragging, listRequests,
                 gestures>>

IdleBoard ==
  /\ serverCandidates = <<>>
  /\ candidates = <<>>
  /\ activeCandidate = NoCandidate
  /\ dragging = Null
  /\ statusRequests = <<>>
  /\ listRequests = <<>>
  /\ alerts = 0
  /\ gestures = 0
  /\ lastDrop = NoDrop

NextBoard ==
  \/ \E i \in 1..MaxListRequests : ServeList(i)
  \/ \E i \in 1..MaxListRequests : ListResponse(i)
  \/ \E i \in 1..MaxListRequests : ListFailure(i)
  \/ \E id \in CardIds : handleDragStart(id)
  \/ \E over \in {NoOver} \cup DroppableIds : handleDragEnd(over)
  \/ \E i \in 1..MaxStatusRequests : ServeStatus(i)
  \/ \E i \in 1..MaxStatusRequests : StatusSuccess(i)
  \/ \E i \in 1..MaxStatusRequests : StatusFailure(i)

(***************************************************************************)
(* Candidate card: the follow-up checklist                                 *)
(***************************************************************************)

\* Checklist requests in flight at once.
MaxChecklistRequests == 2

\* Candidate-list requests of the card's onUpdate in flight at once.
MaxCardListRequests == 2

\* Checklist clicks in one run of the card.
MaxToggles == 3

\* The fixed checklist keys.
ChecklistKeys == {"consent_form_sent", "consent_form_received", "updated_cv_received",
                  "screening_interview_scheduled", "screening_interview_completed"}

\* The checklist items the user clicks in the model.
ToggledKeys == {"consent_form_sent", "screening_interview_completed"}

\* The candidate record carries no checklist (candidate.checklist is undefined).
NoChecklist == [absent |-> TRUE]

\* Interview uploads started in one run of the card.
MaxUploads == 2

\* No interview upload in flight (isUploadingInterview is false).
NoUpload == [absent |-> TRUE]

\* The default of the card's useState: every item false.
DefaultChecklist == [k \in ChecklistKeys |-> FALSE]

\* Checklists the collaborator can hold before the card is used.
StoredChecklists ==
  {[k \in ChecklistKeys |-> k \in on] : on \in SUBSET ToggledKeys} \cup {NoChecklist}

\* useState(candidate.checklist || {...}).
InitialChecklist(candidate_checklist) ==
  IF candidate_checklist # NoChecklist THEN candidate_checklist ELSE DefaultChecklist

\* { ...checklist, [item]: !checklist[item] }
ToggledChecklist(current, item) == [current EXCEPT ![item] = ~current[item]]

\* The card is rendered for a candidate of the loaded list.
InitCard ==
  /\ cardServerChecklist \in StoredChecklists
  /\ candidateChecklist = cardServerChecklist
  /\ checklist = InitialChecklist(candidateChecklist)
  /\ checklistRequests = <<>>
  /\ cardListRequests = <<>>
  /\ toggles = 0
  /\ interviewUpload = NoUpload
  /\ uploads = 0

\* handleChecklistToggle up to the await: the local checklist is replaced
\* and the whole new mapping is sent; the closure keeps the old mapping.
handleChecklistToggle(item) ==
  /\ item \in ToggledKeys
  /\ toggles < MaxToggles
  /\ Len(checklistRequests) < MaxChecklistRequests
  /\ checklist' = ToggledChecklist(checklist, item)
  /\ checklistRequests' = Append(checklistRequests,
        [item |-> item, checklist |-> ToggledChecklist(checklist, item),
         previous |-> checklist, applied |-> FALSE])
  /\ toggles' = toggles + 1
  /\ UNCHANGED <<notCard, cardServerChecklist, candidateChecklist, cardListRequests>>
  /\ UNCHANGED <<interviewUpload, uploads>>

\* The checklist request reaching the collaborator: the stored checklist is
\* replaced by the one of the body.
ServeChecklist(i) ==
  /\ i \in 1..Len(checklistRequests)
  /\ ~checklistRequests[i].applied
  /\ cardServerChecklist' = checklistRequests[i].checklist
  /\ checklistRequests' = [checklistRequests EXCEPT ![i].applied = TRUE]
  /\ UNCHANGED <<notCard, candidateChecklist, checklist, cardListRequests, toggles>>
  /\ UNCHANGED <<interviewUpload, uploads>>

\* handleChecklistToggle after the await, success: onUpdate() refetches.
ChecklistSuccess(i) ==
  /\ i \in 1..Len(checklistRequests)
  /\ checklistRequests[i].applied
  /\ Len(cardListRequests) < MaxCardListRequests
  /\ checklistRequests' = RemoveAt(checklistRequests, i)
  /\ cardListRequests' = Append(cardListRequests, [served |-> FALSE, checklist |-> NoChecklist])
  /\ UNCHANGED <<notCard, cardServerChecklist, candidateChecklist, checklist, toggles>>
  /\ UNCHANGED <<interviewUpload, uploads>>

\* ChecklistFailure without the revert.
ChecklistFailureNoRevert(i) ==
  /\ i \in 1..Len(checklistRequests)
  /\ checklistRequests' = RemoveAt(checklistRequests, i)
  /\ UNCHANGED <<notCard, cardServerChecklist, candidateChecklist, checklist,
                 cardListRequests, toggles>>
  /\ UNCHANGED <<interviewUpload, uploads>>

\* handleChecklistToggle after the await, failure: "Revert on error",
\* setChecklist(checklist) with the mapping the closure holds.
ChecklistFailure(i) ==
  /\ i \in 1..Len(checklistRequests)
  /\ checklistRequests' = RemoveAt(checklistRequests, i)
  /\ checklist' = checklistRequests[i].previous
  /\ UNCHANGED <<notCard, cardServerChecklist, candidateChecklist, cardListRequests, toggles>>
  /\ UNCHANGED <<interviewUpload, uploads>>

\* fetchCandidates of the card's onUpdate, the request reaching the collaborator.
ServeCardList(i) ==
  /\ i \in 1..Len(cardListRequests)
  /\ ~cardListRequests[i].served
  /\ cardListRequests' = [cardListRequests EXCEPT ![i] =
                            [served |-> TRUE, checklist |-> cardServerChecklist]]
  /\ UNCHANGED <<notCard, cardServerChecklist, candidateChecklist, checklist,
                 checklistRequests, toggles>>
  /\ UNCHANGED <<interviewUpload, uploads>>

\* The list response: the card gets a new candidate prop and its effect on
\* [candidate.id, candidate.checklist] copies a present checklist to the state.
CardListResponse(i) ==
  /\ i \in 1..Len(cardListRequests)
  /\ cardListRequests[i].served
  /\ candidateChecklist' = cardListRequests[i].checklist
  /\ checklist' = IF cardListRequests[i].checklist # NoChecklist
                  THEN cardListRequests[i].checklist
                  ELSE checklist
  /\ cardListRequests' = RemoveAt(cardListRequests, i)
  /\ UNCHANGED <<notCard, cardServerChecklist, checklistRequests, toggles>>
  /\ UNCHANGED <<interviewUpload, uploads>>

\* The list request failing: logged, nothing changes.
CardListFailure(i) ==
  /\ i \in 1..Len(cardListRequests)
  /\ cardListRequests' = RemoveAt(cardListRequests, i)
  /\ UNCHANGED <<notCard, cardServerChecklist, candidateChecklist, checklist,
                 checklistRequests, toggles>>
  /\ UNCHANGED <<interviewUpload, uploads>>

\* handleInterviewUpload up to the await (the file input is enabled while no
\* upload is in flight): the POST goes out; the handler's closure holds the
\* handleChecklistToggle, and with it the checklist, of this render.
handleInterviewUpload ==
  /\ interviewUpload = NoUpload
  /\ uploads < MaxUploads
  /\ interviewUpload' = [checklist |-> checklist]
  /\ uploads' = uploads + 1
  /\ UNCHANGED <<notCard, cardServerChecklist, candidateChecklist, checklist,
                 checklistRequests, cardListRequests, toggles>>

\* handleInterviewUpload after the await, success: "Mark interview as
\* completed in checklist" calls handleChecklistToggle of the closure for
\* screening_interview_completed, which flips the item in the checklist it
\* holds, sets the local checklist and sends the new mapping.
InterviewUploadSuccess ==
  /\ interviewUpload # NoUpload
  /\ Len(checklistRequests) < MaxChecklistRequests
  /\ LET held == interviewUpload.checklist
         newChecklist == ToggledChecklist(held, "screening_interview_completed")
     IN /\ checklist' = newChecklist
        /\ checklistRequests' = Append(checklistRequests,
              [item |-> "screening_interview_completed", checklist |-> newChecklist,
               previous |-> held, applied |-> FALSE])
  /\ interviewUpload' = NoUpload
  /\ UNCHANGED <<notCard, cardServerChecklist, candidateChecklist, cardListRequests,
                 toggles, uploads>>

\* handleInterviewUpload after the await, failure: an alert, nothing else.
InterviewUploadFailure ==
  /\ interviewUpload # NoUpload
  /\ interviewUpload' = NoUpload
  /\ UNCHANGED <<notCard, cardServerChecklist, candidateChecklist, checklist,
                 checklistRequests, cardListRequests, toggles, uploads>>

IdleCard ==
  /\ cardServerChecklist = NoChecklist
  /\ candidateChecklist = NoChecklist
  /\ checklist = DefaultChecklist
  /\ checklistRequests = <<>>
  /\ cardListRequests = <<>>
  /\ toggles = 0
  /\ interviewUpload = NoUpload
  /\ uploads = 0

NextCard ==
  \/ \E item \in ChecklistKeys : handleChecklistToggle(item)
  \/ \E i \in 1..MaxChecklistRequests : ServeChecklist(i)
  \/ \E i \in 1..MaxChecklistRequests : ChecklistSuccess(i)
  \/ \E i \in 1..MaxChecklistRequests : ChecklistFailure(i)
  \/ \E i \in 1..MaxCardListRequests : ServeCardList(i)
  \/ \E i \in 1..MaxCardListRequests : CardListResponse(i)
  \/ \E i \in 1..MaxCardListRequests : CardListFailure(i)
  \/ handleInterviewUpload
  \/ InterviewUploadSuccess
  \/ InterviewUploadFailure

(***************************************************************************)
(* Evaluation chat and its debounced persistence                           *)
(***************************************************************************)

\* The delay of the debounce effect's setTimeout, in ms.
DebounceMs == 400

\* The step of the model's clock, in ms.
TickMs == 200

\* Requests of the chat in flight at once.
MaxChatRequests == 2

\* Questions sent in one run.
MaxSends == 1

\* Route changes and role refreshes in one run.
MaxNavigations == 1

\* fetchRole requests in flight at once.
MaxRoleRequests == 1

\* Changes counted in one burst.
MaxBurst == 2

\* The roles the page can show.
RoleIds == {"A", "B"}

\* The tabs of the role page as the chat sees them: the evaluation tab, and
\* "overview" for any of the three tabs that leave the chat view unmounted.
Tabs == {"overview", "evaluation"}

\* No setTimeout pending.
NoTimer == [pending |-> FALSE]

\* The user's message of a question typed in the chat of role r.
UserMessage(r) == [role |-> "user", content |-> <<"question", r>>]

\* The assistant message built from the evaluate response for role r.
AssistantReply(r) == [role |-> "assistant", content |-> <<"response", r>>]

\* The assistant message built in the catch block for role r.
AssistantError(r) == [role |-> "assistant", content |-> <<"error", r>>]

\* The debounce effect with a timer of half the delay.
DebounceEffectShortDelay(roleNow, messages) ==
  IF Len(messages) = 0 THEN NoTimer
  ELSE [pending |-> TRUE, remaining |-> DebounceMs \div 2, roleId |-> roleNow,
        messages |-> messages]

\* The debounce effect on [role?.id, evaluationMessages]: the cleanup clears
\* the previous timer; a non-empty transcript arms a new one whose callback
\* closes over the role and the transcript of that render.
DebounceEffect(roleNow, messages) ==
  IF Len(messages) = 0 THEN NoTimer
  ELSE [pending |-> TRUE, remaining |-> DebounceMs, roleId |-> roleNow, messages |-> messages]

\* The smaller of two numbers.
Min(a, b) == IF a < b THEN a ELSE b

\* The burst after one more change of the transcript: it goes on when the
\* change comes while the timer of the previous change is pending.
BurstAfterChange ==
  [changes |-> IF timer # NoTimer THEN Min(burst.changes + 1, MaxBurst) ELSE 1,
   sinceChange |-> 0,
   saves |-> 0]

\* SaveRequest that carries only the newest message.
SaveRequestDelta(r, messages, via) ==
  [kind |-> "save", roleId |-> r, messages |-> <<messages[Len(messages)]>>, via |-> via,
   viewOpen |-> activeTab = "evaluation"]

\* axios.put(`/api/roles/${role.id}/evaluation-chat`, { messages })
SaveRequest(r, messages, via) ==
  [kind |-> "save", roleId |-> r, messages |-> messages, via |-> via,
   viewOpen |-> activeTab = "evaluation"]

\* axios.get(`/api/roles/${role.id}/evaluation-chat`), not yet answered.
LoadRequest(r) == [kind |-> "load", roleId |-> r, served |-> FALSE, messages |-> <<>>]

\* The requests of the load effect on [role?.id, activeTab] when its
\* dependencies changed: one GET when the evaluation tab is open.
LoadEffect(roleNow, tabNow) ==
  IF tabNow = "evaluation" THEN <<LoadRequest(roleNow)>> ELSE <<>>

\* The in-flight evaluate requests after the chat view unmounted: their
\* setIsLoading no longer reaches a mounted component.
Orphaned(requests) ==
  [i \in 1..Len(requests) |->
     IF requests[i].kind = "evaluate" THEN [requests[i] EXCEPT !.live = FALSE]
     ELSE requests[i]]

\* The collaborator's stores before the page is used.
InitialStores ==
  {[r \in RoleIds |-> IF r \in S THEN <<UserMessage(r), AssistantReply(r)>> ELSE <<>>] :
     S \in SUBSET RoleIds}

\* RolePage is mounted with role A; every state is at its useState default.
InitChat ==
  /\ routeId = "A"
  /\ roleRequests = <<>>
  /\ role = "A"
  /\ activeTab = "overview"
  /\ evaluationMessages = <<>>
  /\ timer = NoTimer
  /\ isLoading = FALSE
  /\ chatStore \in InitialStores
  /\ chatRequests = <<>>
  /\ burst = [changes |-> 0, sinceChange |-> 0, saves |-> 0]
  /\ sends = 0
  /\ navigations = 0
  /\ cleared = FALSE

\* RoleDetailPage: router.query.id changes to r while the page stays mounted;
\* the effect on [id] calls fetchRole.
RouteChange(r) ==
  /\ r # routeId
  /\ navigations < MaxNavigations
  /\ Len(roleRequests) < MaxRoleRequests
  /\ routeId' = r
  /\ roleRequests' = Append(roleRequests, r)
  /\ navigations' = navigations + 1
  /\ UNCHANGED <<role, activeTab, evaluationMessages, timer, isLoading, chatStore,
                 chatRequests, burst, sends, cleared>>
  /\ UNCHANGED notChat

\* RolePage calls onUpdate(), which is fetchRole of the current route.
RefreshRole ==
  /\ navigations < MaxNavigations
  /\ Len(roleRequests) < MaxRoleRequests
  /\ roleRequests' = Append(roleRequests, routeId)
  /\ navigations' = navigations + 1
  /\ UNCHANGED <<routeId, role, activeTab, evaluationMessages, timer, isLoading, chatStore,
                 chatRequests, burst, sends, cleared>>
  /\ UNCHANGED notChat

\* fetchRole resolves: setRole(response.data) hands RolePage a new role
\* object.  Its effect on [role] empties the transcript; the load effect runs
\* when role.id changed; the debounce effect's cleanup clears the timer and the
\* effect returns early on the empty transcript.
RoleLoaded(i) ==
  /\ i \in 1..Len(roleRequests)
  /\ LET newRole == roleRequests[i]
         loads == IF newRole # role THEN LoadEffect(newRole, activeTab) ELSE <<>>
     IN /\ Len(chatRequests) + Len(loads) <= MaxChatRequests
        /\ role' = newRole
        /\ evaluationMessages' = <<>>
        /\ timer' = DebounceEffect(newRole, <<>>)
        /\ burst' = BurstAfterChange
        /\ chatRequests' = chatRequests \o loads
  /\ roleRequests' = RemoveAt(roleRequests, i)
  /\ UNCHANGED <<routeId, activeTab, isLoading, chatStore, sends, navigations>>
  /\ cleared' = (cleared /\ roleRequests[i] = role)
  /\ UNCHANGED notChat

\* fetchRole rejects: console.error only.
RoleFetchFailure(i) ==
  /\ i \in 1..Len(roleRequests)
  /\ roleRequests' = RemoveAt(roleRequests, i)
  /\ UNCHANGED <<routeId, role, activeTab, evaluationMessages, timer, isLoading, chatStore,
                 chatRequests, burst, sends, navigations, cleared>>
  /\ UNCHANGED notChat

\* A tab button: setActiveTab(t).  Opening the evaluation tab mounts a fresh
\* EvaluationChat and runs the load effect; leaving it unmounts the chat view.
SetActiveTab(t) ==
  /\ t \in Tabs
  /\ t # activeTab
  /\ Len(chatRequests) + Len(LoadEffect(role, t)) <= MaxChatRequests
  /\ activeTab' = t
  /\ isLoading' = FALSE
  /\ chatRequests' = IF activeTab = "evaluation" THEN Orphaned(chatRequests)
                     ELSE chatRequests \o LoadEffect(role, t)
  /\ UNCHANGED <<routeId, roleRequests, role, evaluationMessages, timer, chatStore, burst,
                 sends, navigations, cleared>>
  /\ UNCHANGED notChat

\* The collaborator answers GET evaluation-chat with the stored transcript.
ServeLoad(i) ==
  /\ i \in 1..Len(chatRequests)
  /\ chatRequests[i].kind = "load"
  /\ ~chatRequests[i].served
  /\ chatRequests' = [chatRequests EXCEPT ![i].served = TRUE,
                                          ![i].messages = chatStore[chatRequests[i].roleId]]
  /\ UNCHANGED <<routeId, roleRequests, role, activeTab, evaluationMessages, timer, isLoading,
                 chatStore, burst, sends, navigations, cleared>>
  /\ UNCHANGED notChat

\* The .then of the load effect: a non-empty answer replaces the transcript,
\* and the debounce effect re-arms for the role of the current render.
LoadResponse(i) ==
  /\ i \in 1..Len(chatRequests)
  /\ chatRequests[i].kind = "load"
  /\ chatRequests[i].served
  /\ LET msgs == chatRequests[i].messages
     IN IF Len(msgs) > 0
        THEN /\ evaluationMessages' = msgs
             /\ timer' = DebounceEffect(role, msgs)
             /\ burst' = BurstAfterChange
        ELSE UNCHANGED <<evaluationMessages, timer, burst>>
  /\ chatRequests' = RemoveAt(chatRequests, i)
  /\ UNCHANGED <<routeId, roleRequests, role, activeTab, isLoading, chatStore, sends,
                 navigations, cleared>>
  /\ UNCHANGED notChat

\* The .catch of the load effect.
LoadFailure(i) ==
  /\ i \in 1..Len(chatRequests)
  /\ chatRequests[i].kind = "load"
  /\ chatRequests' = RemoveAt(chatRequests, i)
  /\ UNCHANGED <<routeId, roleRequests, role, activeTab, evaluationMessages, timer, isLoading,
                 chatStore, burst, sends, navigations, cleared>>
  /\ UNCHANGED notChat

\* EvaluationChat.handleSend with a non-blank input: the user's message is
\* appended to the transcript of this render, the debounce effect re-arms, and
\* the evaluate request goes out for the roleId prop of this render.
handleSend ==
  /\ activeTab = "evaluation"
  /\ ~isLoading
  /\ sends < MaxSends
  /\ Len(chatRequests) < MaxChatRequests
  /\ LET messagesWithUser == Append(evaluationMessages, UserMessage(role))
     IN /\ evaluationMessages' = messagesWithUser
        /\ timer' = DebounceEffect(role, messagesWithUser)
        /\ chatRequests' = Append(chatRequests,
                                  [kind |-> "evaluate", roleId |-> role,
                                   messagesWithUser |-> messagesWithUser, live |-> TRUE])
  /\ burst' = BurstAfterChange
  /\ isLoading' = TRUE
  /\ sends' = sends + 1
  /\ UNCHANGED <<routeId, roleRequests, role, activeTab, chatStore, navigations>>
  /\ cleared' = FALSE
  /\ UNCHANGED notChat

\* The evaluate request resolves, without the immediate persist.
EvaluateSuccessNoPersist(i) ==
  /\ i \in 1..Len(chatRequests)
  /\ chatRequests[i].kind = "evaluate"
  /\ LET req == chatRequests[i]
         newMessages == Append(req.messagesWithUser, AssistantReply(req.roleId))
     IN /\ evaluationMessages' = newMessages
        /\ timer' = DebounceEffect(role, newMessages)
        /\ chatRequests' = RemoveAt(chatRequests, i)
        /\ isLoading' = IF req.live THEN FALSE ELSE isLoading
  /\ burst' = BurstAfterChange
  /\ UNCHANGED <<routeId, roleRequests, role, activeTab, chatStore, sends, navigations, cleared>>
  /\ UNCHANGED notChat

\* The evaluate request resolves: the handler that sent it sets the transcript
\* to its own messagesWithUser plus the reply (the debounce effect re-arms for
\* the role of the current render) and calls onPersistMessages, which is
\* persistEvaluationChatNow of the render that sent the question.
EvaluateSuccess(i) ==
  /\ i \in 1..Len(chatRequests)
  /\ chatRequests[i].kind = "evaluate"
  /\ LET req == chatRequests[i]
         newMessages == Append(req.messagesWithUser, AssistantReply(req.roleId))
     IN /\ evaluationMessages' = newMessages
        /\ timer' = DebounceEffect(role, newMessages)
        /\ chatRequests' = Append(RemoveAt(chatRequests, i),
                                  SaveRequest(req.roleId, newMessages, "immediate"))
        /\ isLoading' = IF req.live THEN FALSE ELSE isLoading
  /\ burst' = BurstAfterChange
  /\ UNCHANGED <<routeId, roleRequests, role, activeTab, chatStore, sends, navigations, cleared>>
  /\ UNCHANGED notChat

\* EvaluateFailure that only logs: no entry is appended and nothing is saved.
EvaluateFailureSilent(i) ==
  /\ i \in 1..Len(chatRequests)
  /\ chatRequests[i].kind = "evaluate"
  /\ chatRequests' = RemoveAt(chatRequests, i)
  /\ isLoading' = IF chatRequests[i].live THEN FALSE ELSE isLoading
  /\ UNCHANGED <<routeId, roleRequests, role, activeTab, evaluationMessages, timer, chatStore,
                 burst, sends, navigations, cleared>>
  /\ UNCHANGED notChat

\* The evaluate request rejects: the catch block appends an assistant error
\* entry and persists it the same way.
EvaluateFailure(i) ==
  /\ i \in 1..Len(chatRequests)
  /\ chatRequests[i].kind = "evaluate"
  /\ LET req == chatRequests[i]
         newMessages == Append(req.messagesWithUser, AssistantError(req.roleId))
     IN /\ evaluationMessages' = newMessages
        /\ timer' = DebounceEffect(role, newMessages)
        /\ chatRequests' = Append(RemoveAt(chatRequests, i),
                                  SaveRequest(req.roleId, newMessages, "immediate"))
        /\ isLoading' = IF req.live THEN FALSE ELSE isLoading
  /\ burst' = BurstAfterChange
  /\ UNCHANGED <<routeId, roleRequests, role, activeTab, chatStore, sends, navigations, cleared>>
  /\ UNCHANGED notChat

\* Time passes while a timer is pending; it cannot pass a due timer.
Tick ==
  /\ timer # NoTimer
  /\ timer.remaining > 0
  /\ LET elapsed == Min(TickMs, timer.remaining)
     IN /\ timer' = [timer EXCEPT !.remaining = timer.remaining - elapsed]
        /\ burst' = [burst EXCEPT !.sinceChange = burst.sinceChange + elapsed]
  /\ UNCHANGED <<routeId, roleRequests, role, activeTab, evaluationMessages, isLoading,
                 chatStore, chatRequests, sends, navigations, cleared>>
  /\ UNCHANGED notChat

\* The setTimeout callback: saveEvaluationChat(evaluationMessages) with the
\* role and the transcript of the render that armed the timer.
DebounceTimerFires ==
  /\ timer # NoTimer
  /\ timer.remaining = 0
  /\ Len(chatRequests) < MaxChatRequests
  /\ chatRequests' = Append(chatRequests, SaveRequest(timer.roleId, timer.messages, "debounced"))
  /\ timer' = NoTimer
  /\ burst' = [burst EXCEPT !.saves = burst.saves + 1]
  /\ UNCHANGED <<routeId, roleRequests, role, activeTab, evaluationMessages, isLoading,
                 chatStore, sends, navigations, cleared>>
  /\ UNCHANGED notChat

\* handleClearEvaluationChat whose timer survives the clear.
ClearKeepingTimer ==
  /\ activeTab = "evaluation"
  /\ Len(evaluationMessages) > 0
  /\ Len(chatRequests) < MaxChatRequests
  /\ evaluationMessages' = <<>>
  /\ timer' = timer
  /\ burst' = BurstAfterChange
  /\ chatRequests' = Append(chatRequests, [kind |-> "delete", roleId |-> role])
  /\ UNCHANGED <<routeId, roleRequests, role, activeTab, isLoading, chatStore, sends,
                 navigations>>
  /\ cleared' = TRUE
  /\ UNCHANGED notChat

\* handleClearEvaluationChat, confirmed (the Clear button shows only on a
\* non-empty transcript): the transcript is emptied, the debounce effect's
\* cleanup clears the timer and the effect returns early, and one DELETE goes
\* out for the role of this render.
handleClearEvaluationChat ==
  /\ activeTab = "evaluation"
  /\ Len(evaluationMessages) > 0
  /\ Len(chatRequests) < MaxChatRequests
  /\ evaluationMessages' = <<>>
  /\ timer' = DebounceEffect(role, <<>>)
  /\ burst' = BurstAfterChange
  /\ chatRequests' = Append(chatRequests, [kind |-> "delete", roleId |-> role])
  /\ UNCHANGED <<routeId, roleRequests, role, activeTab, isLoading, chatStore, sends,
                 navigations>>
  /\ cleared' = TRUE
  /\ UNCHANGED notChat

\* The collaborator stores the transcript of a PUT; the page ignores the answer.
SaveArrives(i) ==
  /\ i \in 1..Len(chatRequests)
  /\ chatRequests[i].kind = "save"
  /\ chatStore' = [chatStore EXCEPT ![chatRequests[i].roleId] = chatRequests[i].messages]
  /\ chatRequests' = RemoveAt(chatRequests, i)
  /\ UNCHANGED <<routeId, roleRequests, role, activeTab, evaluationMessages, timer, isLoading,
                 burst, sends, navigations, cleared>>
  /\ UNCHANGED notChat

\* The collaborator drops the stored transcript of a DELETE.
DeleteArrives(i) ==
  /\ i \in 1..Len(chatRequests)
  /\ chatRequests[i].kind = "delete"
  /\ chatStore' = [chatStore EXCEPT ![chatRequests[i].roleId] = <<>>]
  /\ chatRequests' = RemoveAt(chatRequests, i)
  /\ UNCHANGED <<routeId, roleRequests, role, activeTab, evaluationMessages, timer, isLoading,
                 burst, sends, navigations, cleared>>
  /\ UNCHANGED notChat

\* A PUT or DELETE fails: .catch(() => {}).
WriteFailure(i) ==
  /\ i \in 1..Len(chatRequests)
  /\ chatRequests[i].kind \in {"save", "delete"}
  /\ chatRequests' = RemoveAt(chatRequests, i)
  /\ UNCHANGED <<routeId, roleRequests, role, activeTab, evaluationMessages, timer, isLoading,
                 chatStore, burst, sends, navigations, cleared>>
  /\ UNCHANGED notChat

\* The chat does nothing in the runs of the other concerns.
IdleChat ==
  /\ routeId = "A"
  /\ roleRequests = <<>>
  /\ role = "A"
  /\ activeTab = "overview"
  /\ evaluationMessages = <<>>
  /\ timer = NoTimer
  /\ isLoading = FALSE
  /\ chatStore = [r \in RoleIds |-> <<>>]
  /\ chatRequests = <<>>
  /\ burst = [changes |-> 0, sinceChange |-> 0, saves |-> 0]
  /\ sends = 0
  /\ navigations = 0
  /\ cleared = FALSE

NextChat ==
  \/ \E r \in RoleIds : RouteChange(r)
  \/ RefreshRole
  \/ \E i \in 1..MaxRoleRequests : RoleLoaded(i)
  \/ \E i \in 1..MaxRoleRequests : RoleFetchFailure(i)
  \/ \E t \in Tabs : SetActiveTab(t)
  \/ \E i \in 1..MaxChatRequests : ServeLoad(i)
  \/ \E i \in 1..MaxChatRequests : LoadResponse(i)
  \/ \E i \in 1..MaxChatRequests : LoadFailure(i)
  \/ handleSend
  \/ \E i \in 1..MaxChatRequests : EvaluateSuccess(i)
  \/ \E i \in 1..MaxChatRequests : EvaluateFailure(i)
  \/ Tick
  \/ DebounceTimerFires
  \/ handleClearEvaluationChat
  \/ \E i \in 1..MaxChatRequests : SaveArrives(i)
  \/ \E i \in 1..MaxChatRequests : DeleteArrives(i)
  \/ \E i \in 1..MaxChatRequests : WriteFailure(i)

(***************************************************************************)
(* Stored status of the candidates: column, flags and color                *)
(***************************************************************************)

\* Failed status mutations in one run.
MaxMutationFailures == 1

\* outreach_reply of a candidate: none, or the sentiment of the reply.
OutreachReplies == {Null, "positive", "negative"}

\* The stored records a candidate can have before the page is used.
StatusRecords ==
  [column : COLUMN_IDS, color : Colors, outreach_sent : BOOLEAN,
   not_pushing_forward : BOOLEAN, sent_to_client : BOOLEAN,
   outreach_reply : OutreachReplies, written : {FALSE}]

\* The candidate list the page holds when every request has settled: the
\* stored records with their ids.
StatusList(records) ==
  [i \in 1..2 |->
     LET id == IF i = 1 THEN "c1" ELSE "c2"
     IN [id |-> id, column |-> records[id].column, color |-> records[id].color]]

\* The collaborator holds a record for each of the two candidates, none with
\* both flags set; no card has generated an outreach message yet.
InitStatus ==
  /\ statusRecords \in
       {r \in [CardIds -> StatusRecords] :
          \A id \in CardIds : ~(r[id].not_pushing_forward /\ r[id].sent_to_client)}
  /\ outreachMessage = [id \in CardIds |-> FALSE]
  /\ mutationFailures = 0
  /\ mutationAlerts = 0

\* A drag of the card id that ends on over, its status request applied at the
\* collaborator and the list refetched before the next operation.
MoveCandidate(id, over) ==
  /\ LET sent == MoveRequest(StatusList(statusRecords), id, over)
     IN /\ sent # <<>>
        /\ statusRecords' = [statusRecords EXCEPT ![id].column = sent[1].body.column,
                                                  ![id].color = sent[1].body.color,
                                                  ![id].written = TRUE]
  /\ UNCHANGED <<outreachMessage, mutationFailures, mutationAlerts>>
  /\ UNCHANGED notStatus

\* The same drag with the status request rejected: the catch block of
\* handleDragEnd alerts 'Failed to update candidate status'.
MoveCandidateRejected(id, over) ==
  /\ MoveRequest(StatusList(statusRecords), id, over) # <<>>
  /\ mutationFailures < MaxMutationFailures
  /\ mutationFailures' = mutationFailures + 1
  /\ mutationAlerts' = mutationAlerts + 1
  /\ UNCHANGED <<statusRecords, outreachMessage>>
  /\ UNCHANGED notStatus

\* handleGenerateOutreach (the button shows in the outreach column while
\* outreach_sent is false and the card holds no message): the POST answers and
\* setOutreachMessage keeps the message in the card.
handleGenerateOutreach(id) ==
  /\ statusRecords[id].column = "outreach"
  /\ ~statusRecords[id].outreach_sent
  /\ ~outreachMessage[id]
  /\ outreachMessage' = [outreachMessage EXCEPT ![id] = TRUE]
  /\ UNCHANGED <<statusRecords, mutationFailures, mutationAlerts>>
  /\ UNCHANGED notStatus

\* handleGenerateOutreach with the POST rejected: alert('Failed to generate
\* outreach message').
handleGenerateOutreachRejected(id) ==
  /\ statusRecords[id].column = "outreach"
  /\ ~statusRecords[id].outreach_sent
  /\ ~outreachMessage[id]
  /\ mutationFailures < MaxMutationFailures
  /\ mutationFailures' = mutationFailures + 1
  /\ mutationAlerts' = mutationAlerts + 1
  /\ UNCHANGED <<statusRecords, outreachMessage>>
  /\ UNCHANGED notStatus

\* handleMarkOutreachSent (Mark as Sent shows in the outreach column while
\* outreach_sent is false and the card holds a message):
\* PUT { outreach_sent: true, color: 'amber-solid' }, applied at the
\* collaborator and the list refetched.
handleMarkOutreachSent(id) ==
  /\ statusRecords[id].column = "outreach"
  /\ ~statusRecords[id].outreach_sent
  /\ outreachMessage[id]
  /\ statusRecords' = [statusRecords EXCEPT ![id].outreach_sent = TRUE,
                                            ![id].color = "amber-solid",
                                            ![id].written = TRUE]
  /\ UNCHANGED <<outreachMessage, mutationFailures, mutationAlerts>>
  /\ UNCHANGED notStatus

\* handleMarkOutreachSent with the PUT rejected: the catch block logs to the
\* console and does nothing else.
handleMarkOutreachSentRejected(id) ==
  /\ statusRecords[id].column = "outreach"
  /\ ~statusRecords[id].outreach_sent
  /\ outreachMessage[id]
  /\ mutationFailures < MaxMutationFailures
  /\ mutationFailures' = mutationFailures + 1
  /\ UNCHANGED <<statusRecords, outreachMessage, mutationAlerts>>
  /\ UNCHANGED notStatus

\* handleMarkNotPushing of the card and of the role page (both buttons show
\* while neither flag is set): PUT { not_pushing_forward: true }, applied and
\* the list refetched.
handleMarkNotPushing(id) ==
  /\ ~statusRecords[id].not_pushing_forward
  /\ ~statusRecords[id].sent_to_client
  /\ statusRecords' = [statusRecords EXCEPT ![id].not_pushing_forward = TRUE]
  /\ UNCHANGED <<outreachMessage, mutationFailures, mutationAlerts>>
  /\ UNCHANGED notStatus

\* handleMarkNotPushing with the PUT rejected: alert('Failed to update
\* candidate status').
handleMarkNotPushingRejected(id) ==
  /\ ~statusRecords[id].not_pushing_forward
  /\ ~statusRecords[id].sent_to_client
  /\ mutationFailures < MaxMutationFailures
  /\ mutationFailures' = mutationFailures + 1
  /\ mutationAlerts' = mutationAlerts + 1
  /\ UNCHANGED <<statusRecords, outreachMessage>>
  /\ UNCHANGED notStatus

\* Mark as negative is offered for the selected candidate of the
\* outreach-and-consent page: under a reply whose sentiment is not positive,
\* or in the outreach column without a reply, while not_pushing_forward is
\* false.
MarkAsNegativeOffered(candidate) ==
  /\ ~candidate.not_pushing_forward
  /\ \/ candidate.outreach_reply \notin {Null, "positive"}
     \/ candidate.column = "outreach" /\ candidate.outreach_reply = Null

\* handleMarkAsNegative of the outreach-and-consent page:
\* PUT { not_pushing_forward: true }, applied and the data refetched.
handleMarkAsNegative(id) ==
  /\ MarkAsNegativeOffered(statusRecords[id])
  /\ statusRecords' = [statusRecords EXCEPT ![id].not_pushing_forward = TRUE]
  /\ UNCHANGED <<outreachMessage, mutationFailures, mutationAlerts>>
  /\ UNCHANGED notStatus

\* handleMarkAsNegative with the PUT rejected: alert with the error detail.
handleMarkAsNegativeRejected(id) ==
  /\ MarkAsNegativeOffered(statusRecords[id])
  /\ mutationFailures < MaxMutationFailures
  /\ mutationFailures' = mutationFailures + 1
  /\ mutationAlerts' = mutationAlerts + 1
  /\ UNCHANGED <<statusRecords, outreachMessage>>
  /\ UNCHANGED notStatus

IdleStatus ==
  /\ statusRecords = <<>>
  /\ outreachMessage = <<>>
  /\ mutationFailures = 0
  /\ mutationAlerts = 0

NextStatus ==
  \/ \E id \in CardIds, over \in DroppableIds : MoveCandidate(id, over)
  \/ \E id \in CardIds, over \in DroppableIds : MoveCandidateRejected(id, over)
  \/ \E id \in CardIds : handleGenerateOutreach(id)
  \/ \E id \in CardIds : handleGenerateOutreachRejected(id)
  \/ \E id \in CardIds : handleMarkOutreachSent(id)
  \/ \E id \in CardIds : handleMarkOutreachSentRejected(id)
  \/ \E id \in CardIds : handleMarkNotPushing(id)
  \/ \E id \in CardIds : handleMarkNotPushingRejected(id)
  \/ \E id \in CardIds : handleMarkAsNegative(id)
  \/ \E id \in CardIds : handleMarkAsNegativeRejected(id)

(***************************************************************************)
(* Collision resolver                                                      *)
(***************************************************************************)

\* Longest collision list one tier reports in the model.
MaxColl == 2

\* What one collision algorithm of the drag library can report: droppables,
\* best first, none twice.
CollisionLists == DistinctSeqs(DroppableIds, MaxColl)

isColumnId(id) == id \in COLUMN_IDS

\* allCollisions with the pointer tier consulted before the rectangle tier.
AllCollisionsPointerFirst(rect, pointer, corner) ==
  IF Len(pointer) > 0 THEN pointer
  ELSE IF Len(rect) > 0 THEN rect
  ELSE corner

\* allCollisions: the first non-empty tier.
AllCollisions(rect, pointer, corner) ==
  IF Len(rect) > 0 THEN rect
  ELSE IF Len(pointer) > 0 THEN pointer
  ELSE corner

\* Array.prototype.find(c => c.id !== activeCol) on the column collisions:
\* the sequence holding the first such element, or the empty sequence.
FindTargetColumn(columnCollisions, activeCol) ==
  LET hits == {i \in 1..Len(columnCollisions) : columnCollisions[i] # activeCol}
  IN IF hits = {} THEN <<>>
     ELSE <<columnCollisions[CHOOSE i \in hits : \A j \in hits : i <= j]>>

\* KanbanCollisionDetection without the cross-column promotion.
KanbanCollisionDetectionNoPromotion(rect, pointer, corner, activeCol) ==
  AllCollisions(rect, pointer, corner)

\* The collision detection function the board hands to the drag context.
KanbanCollisionDetection(rect, pointer, corner, activeCol) ==
  LET allCollisions == AllCollisions(rect, pointer, corner)
      columnCollisions == FilterSeq(allCollisions, COLUMN_IDS)
      otherCollisions == FilterSeq(allCollisions, DroppableIds \ COLUMN_IDS)
      targetColumnCollision == FindTargetColumn(columnCollisions, activeCol)
  IN IF Len(allCollisions) = 0 THEN <<>>
     ELSE IF Truthy(activeCol) /\ (\E i \in 1..Len(allCollisions) : isColumnId(allCollisions[i]))
               /\ targetColumnCollision # <<>>
          THEN targetColumnCollision \o otherCollisions
          ELSE allCollisions

\* A drag frame: the card being dragged is one the board renders, so it sits
\* in one of the three columns; the three tiers are whatever the library measured.
InitResolver ==
  /\ activeColumn \in COLUMN_IDS
  /\ rectCollisions \in CollisionLists
  /\ pointerCollisions \in CollisionLists
  /\ cornerCollisions \in CollisionLists
  /\ collisions = <<>>
  /\ resolverPc = "frame"

\* The drag context calls the detection function for the frame.
DetectCollisions ==
  /\ resolverPc = "frame"
  /\ collisions' = KanbanCollisionDetection(rectCollisions, pointerCollisions,
                                            cornerCollisions, activeColumn)
  /\ resolverPc' = "resolved"
  /\ UNCHANGED <<notResolver, activeColumn, rectCollisions, pointerCollisions,
                 cornerCollisions>>

(***************************************************************************)
(* Evaluation eligibility                                                  *)
(***************************************************************************)

\* Candidates of the role in one evaluate request.
NumEvalCands == 1

\* No interview record for the candidate.
NoInterview == [absent |-> TRUE]

\* Interview records: interview_completed is true, false or missing; the
\* transcription and the summary are missing, empty or some text.
Interviews ==
  [interview_completed : {"true", "false", Null},
   transcription : {Null, "", "text"},
   summary : {Null, "", "text"}]

\* Candidate records as the endpoint reads them.
EvalCandidates ==
  [column : COLUMN_IDS,
   not_pushing_forward : BOOLEAN,
   sent_to_client : BOOLEAN,
   interview : Interviews \cup {NoInterview}]

\* HasCompletedInterview with the summary left out.
HasCompletedInterviewNoSummary(interview) ==
  /\ interview # NoInterview
  /\ \/ interview.interview_completed = "true"
     \/ Truthy(interview.transcription)

\* hasCompletedInterview of the interview grid:
\*   interview && (interview.interview_completed === true
\*                 || !!(interview.transcription || interview.summary))
HasCompletedInterview(interview) ==
  /\ interview # NoInterview
  /\ \/ interview.interview_completed = "true"
     \/ Truthy(interview.transcription)
     \/ Truthy(interview.summary)

\* ActiveEvaluationSet that keeps candidates already sent to the client.
ActiveEvaluationSetWithSent(cands) ==
  {i \in DOMAIN cands :
     /\ cands[i].column = "evaluation"
     /\ ~cands[i].not_pushing_forward
     /\ HasCompletedInterview(cands[i].interview)}

\* The endpoint's active set: evaluation column, not marked "not pushing
\* forward", not already sent to the client, interview completed.
ActiveEvaluationSet(cands) ==
  {i \in DOMAIN cands :
     /\ cands[i].column = "evaluation"
     /\ ~cands[i].not_pushing_forward
     /\ ~cands[i].sent_to_client
     /\ HasCompletedInterview(cands[i].interview)}

\* The endpoint's reference-only set: candidates already sent to the client.
ReferenceOnlySet(cands) == {i \in DOMAIN cands : cands[i].sent_to_client}

InitEval ==
  /\ all_candidates \in [1..NumEvalCands -> EvalCandidates]
  /\ evaluation_candidates = {}
  /\ sent_to_client_candidates = {}
  /\ evalPc = "request"

\* POST candidates/evaluate: the endpoint partitions the role's candidates.
Evaluate ==
  /\ evalPc = "request"
  /\ evaluation_candidates' = ActiveEvaluationSet(all_candidates)
  /\ sent_to_client_candidates' = ReferenceOnlySet(all_candidates)
  /\ evalPc' = "filtered"
  /\ UNCHANGED <<notEval, all_candidates>>

IdleResolver ==
  /\ activeColumn = Null
  /\ rectCollisions = <<>>
  /\ pointerCollisions = <<>>
  /\ cornerCollisions = <<>>
  /\ collisions = <<>>
  /\ resolverPc = "idle"

IdleEval ==
  /\ all_candidates = <<>>
  /\ evaluation_candidates = {}
  /\ sent_to_client_candidates = {}
  /\ evalPc = "idle"

(***************************************************************************)
(* Interview helper: the required-fields view                              *)
(***************************************************************************)

\* Interview requests in flight at once.
MaxInterviewRequests == 2

\* Role changes, uploads, manual saves and form edits in one run.
MaxInterviewOps == 2

\* Field names a role can require.
FieldNames == {"expected_salary", "notice_period"}

\* What a response mapping holds for a field name: nothing (Null), the empty
\* string, or an answer.
ResponseValues == {Null, "", "3 months"}

\* candidate_responses: a mapping from field names to strings.
ResponseMappings == [FieldNames -> ResponseValues]

\* The empty mapping {}.
NoResponses == [f \in FieldNames |-> Null]

\* role.candidate_requirement_fields: ordered lists of field names.
RoleFieldLists == DistinctSeqs(FieldNames, 2)

\* Interview records as far as the view reads them.
InterviewRecords == [candidate_responses : ResponseMappings]

\* inv.candidate_responses || {}
ResponsesOf(inv) == inv.candidate_responses

\* The init effect: one entry per required field, none collected.
InitialRequiredFields(list) ==
  [i \in 1..Len(list) |-> [field |-> list[i], collected |-> FALSE, value |-> Null]]

\* updateRequiredFields: collected: !!responses[field.field],
\* value: responses[field.field] || undefined.
updateRequiredFields(prev, responses) ==
  [i \in 1..Len(prev) |->
     [field |-> prev[i].field,
      collected |-> Truthy(responses[prev[i].field]),
      value |-> IF Truthy(responses[prev[i].field]) THEN responses[prev[i].field] ELSE Null]]

\* A GET candidate-interview request, not yet answered.
FetchRequest == [kind |-> "fetch", served |-> FALSE, result |-> NoInterview]

\* InterviewHelper is mounted for a candidate: the init effect has set the
\* view from the role's list and fetchInterview is in flight.
InitInterview ==
  /\ roleFields \in RoleFieldLists
  /\ serverInterview \in {NoInterview} \cup InterviewRecords
  /\ interviewState = NoInterview
  /\ requiredFields = InitialRequiredFields(roleFields)
  /\ manualResponses = NoResponses
  /\ interviewRequests = <<FetchRequest>>
  /\ interviewOps = 0

\* The role prop changes (a refreshed or edited role): the init effect runs
\* again, calls fetchInterview and resets the view from the new list.
RolePropChanged(list) ==
  /\ list \in RoleFieldLists
  /\ interviewOps < MaxInterviewOps
  /\ Len(interviewRequests) < MaxInterviewRequests
  /\ roleFields' = list
  /\ requiredFields' = InitialRequiredFields(list)
  /\ interviewRequests' = Append(interviewRequests, FetchRequest)
  /\ interviewOps' = interviewOps + 1
  /\ UNCHANGED <<serverInterview, interviewState, manualResponses>>
  /\ UNCHANGED notInterview

\* The collaborator answers a request: a fetch gets the stored record.
ServeFetch(i) ==
  /\ i \in 1..Len(interviewRequests)
  /\ interviewRequests[i].kind = "fetch"
  /\ ~interviewRequests[i].served
  /\ interviewRequests' = [interviewRequests EXCEPT ![i].served = TRUE,
                                                    ![i].result = serverInterview]
  /\ UNCHANGED <<roleFields, serverInterview, interviewState, requiredFields,
                 manualResponses, interviewOps>>
  /\ UNCHANGED notInterview

\* fetchInterview after the await: with an interview, the state, the view and
\* the manual form are set from it; without one the state and the form are
\* cleared and the view is left as it is.
FetchResponse(i) ==
  /\ i \in 1..Len(interviewRequests)
  /\ interviewRequests[i].kind = "fetch"
  /\ interviewRequests[i].served
  /\ LET inv == interviewRequests[i].result
     IN IF inv # NoInterview
        THEN /\ interviewState' = inv
             /\ requiredFields' = updateRequiredFields(requiredFields, ResponsesOf(inv))
             /\ manualResponses' = ResponsesOf(inv)
        ELSE /\ interviewState' = NoInterview
             /\ manualResponses' = NoResponses
             /\ UNCHANGED requiredFields
  /\ interviewRequests' = RemoveAt(interviewRequests, i)
  /\ UNCHANGED <<roleFields, serverInterview, interviewOps>>
  /\ UNCHANGED notInterview

\* fetchInterview, the catch block.
FetchFailure(i) ==
  /\ i \in 1..Len(interviewRequests)
  /\ interviewRequests[i].kind = "fetch"
  /\ interviewState' = NoInterview
  /\ manualResponses' = NoResponses
  /\ interviewRequests' = RemoveAt(interviewRequests, i)
  /\ UNCHANGED <<roleFields, serverInterview, requiredFields, interviewOps>>
  /\ UNCHANGED notInterview

\* handleFileUpload (and the recorder's onstop): POST candidate-interview.
handleFileUpload ==
  /\ interviewOps < MaxInterviewOps
  /\ Len(interviewRequests) < MaxInterviewRequests
  /\ interviewRequests' = Append(interviewRequests,
                                 [kind |-> "upload", served |-> FALSE, result |-> NoInterview])
  /\ interviewOps' = interviewOps + 1
  /\ UNCHANGED <<roleFields, serverInterview, interviewState, requiredFields, manualResponses>>
  /\ UNCHANGED notInterview

\* The collaborator processes an upload: the stored interview gets the
\* responses it extracted from the audio.
ServeUpload(i, extracted) ==
  /\ i \in 1..Len(interviewRequests)
  /\ interviewRequests[i].kind = "upload"
  /\ ~interviewRequests[i].served
  /\ extracted \in ResponseMappings
  /\ serverInterview' = [candidate_responses |-> extracted]
  /\ interviewRequests' = [interviewRequests EXCEPT ![i].served = TRUE,
                                                    ![i].result = serverInterview']
  /\ UNCHANGED <<roleFields, interviewState, requiredFields, manualResponses, interviewOps>>
  /\ UNCHANGED notInterview

\* The manual form's input of a required field: setManualResponses(prev =>
\* ({ ...prev, [field]: e.target.value })).
EditManualResponse(field, text) ==
  /\ interviewOps < MaxInterviewOps
  /\ field \in Range(roleFields)
  /\ text \in ResponseValues \ {Null}
  /\ manualResponses[field] # text
  /\ manualResponses' = [manualResponses EXCEPT ![field] = text]
  /\ interviewOps' = interviewOps + 1
  /\ UNCHANGED <<roleFields, serverInterview, interviewState, requiredFields, interviewRequests>>
  /\ UNCHANGED notInterview

\* handleSaveManualInterview: PUT candidate-interview; candidate_responses is
\* the form's mapping when it has a key, else left out ("omitted").
handleSaveManualInterview ==
  /\ interviewOps < MaxInterviewOps
  /\ Len(interviewRequests) < MaxInterviewRequests
  /\ interviewRequests' =
       Append(interviewRequests,
              [kind |-> "manual", served |-> FALSE, result |-> NoInterview,
               omitted |-> manualResponses = NoResponses,
               candidate_responses |-> manualResponses])
  /\ interviewOps' = interviewOps + 1
  /\ UNCHANGED <<roleFields, serverInterview, interviewState, requiredFields, manualResponses>>
  /\ UNCHANGED notInterview

\* The collaborator applies a manual save: the responses of the payload
\* replace the stored ones; without them the stored ones stay.
ServeManual(i) ==
  /\ i \in 1..Len(interviewRequests)
  /\ interviewRequests[i].kind = "manual"
  /\ ~interviewRequests[i].served
  /\ serverInterview' =
       IF ~interviewRequests[i].omitted
       THEN [candidate_responses |-> interviewRequests[i].candidate_responses]
       ELSE IF serverInterview = NoInterview THEN [candidate_responses |-> NoResponses]
       ELSE serverInterview
  /\ interviewRequests' = [interviewRequests EXCEPT ![i].served = TRUE,
                                                    ![i].result = serverInterview']
  /\ UNCHANGED <<roleFields, interviewState, requiredFields, manualResponses, interviewOps>>
  /\ UNCHANGED notInterview

\* An upload or a manual save after the await: setInterview and
\* updateRequiredFields from the interview of the response.
WriteResponse(i) ==
  /\ i \in 1..Len(interviewRequests)
  /\ interviewRequests[i].kind \in {"upload", "manual"}
  /\ interviewRequests[i].served
  /\ interviewState' = interviewRequests[i].result
  /\ requiredFields' = updateRequiredFields(requiredFields,
                                            ResponsesOf(interviewRequests[i].result))
  /\ interviewRequests' = RemoveAt(interviewRequests, i)
  /\ UNCHANGED <<roleFields, serverInterview, manualResponses, interviewOps>>
  /\ UNCHANGED notInterview

\* An upload or a manual save fails, before or after the collaborator
\* applied it: the catch block alerts and changes nothing of the view.
InterviewWriteFailure(i) ==
  /\ i \in 1..Len(interviewRequests)
  /\ interviewRequests[i].kind \in {"upload", "manual"}
  /\ interviewRequests' = RemoveAt(interviewRequests, i)
  /\ UNCHANGED <<roleFields, serverInterview, interviewState, requiredFields, manualResponses,
                 interviewOps>>
  /\ UNCHANGED notInterview

IdleInterview ==
  /\ roleFields = <<>>
  /\ serverInterview = NoInterview
  /\ interviewState = NoInterview
  /\ requiredFields = <<>>
  /\ manualResponses = <<>>
  /\ interviewRequests = <<>>
  /\ interviewOps = 0

NextInterview ==
  \/ \E list \in RoleFieldLists : RolePropChanged(list)
  \/ \E i \in 1..MaxInterviewRequests : ServeFetch(i)
  \/ \E i \in 1..MaxInterviewRequests : FetchResponse(i)
  \/ \E i \in 1..MaxInterviewRequests : FetchFailure(i)
  \/ handleFileUpload
  \/ \E i \in 1..MaxInterviewRequests, extracted \in ResponseMappings : ServeUpload(i, extracted)
  \/ \E field \in FieldNames, text \in ResponseValues : EditManualResponse(field, text)
  \/ handleSaveManualInterview
  \/ \E i \in 1..MaxInterviewRequests : ServeManual(i)
  \/ \E i \in 1..MaxInterviewRequests : WriteResponse(i)
  \/ \E i \in 1..MaxInterviewRequests : InterviewWriteFailure(i)

(***************************************************************************)
(* Displayed candidate order: RolePage sortedCandidates                    *)
(***************************************************************************)

\* Longest candidate list drawn.
MaxCandidates == 3

\* Values of a candidate's column: unset, the three board columns and a value
\* that is not a board column.
SortColumns == {Null, "outreach", "follow-up", "evaluation", "archived"}

\* Values of a candidate's name: unset and two names.
SortNames == {Null, "Ann", "Bob"}

\* A candidate of the list; pos is its position in the list the page holds.
SortRecords == [pos : 1..MaxCandidates, column : SortColumns, name : SortNames]

\* COLUMN_ORDER[col] ?? 3.
ColumnOrder(col) ==
  CASE col = "outreach" -> 0
    [] col = "follow-up" -> 1
    [] col = "evaluation" -> 2
    [] OTHER -> 3

\* a.name || ''.
NameOrEmpty(candidate) == IF Truthy(candidate.name) THEN candidate.name ELSE ""

\* String.prototype.localeCompare on the names drawn: negative, zero or
\* positive; the empty string collates first.
localeCompare(a, b) ==
  LET position(n) == CASE n = "" -> 0 [] n = "Ann" -> 1 [] n = "Bob" -> 2
  IN position(a) - position(b)

\* The comparator with an unset column ranked like any unknown value.
CompareUnsetAsUnknown(a, b) ==
  IF ColumnOrder(a.column) # ColumnOrder(b.column)
  THEN ColumnOrder(a.column) - ColumnOrder(b.column)
  ELSE localeCompare(NameOrEmpty(a), NameOrEmpty(b))

\* The comparator of sortedCandidates.
Compare(a, b) ==
  LET orderA == ColumnOrder(SortColumn(a))
      orderB == ColumnOrder(SortColumn(b))
  IN IF orderA # orderB THEN orderA - orderB
     ELSE localeCompare(NameOrEmpty(a), NameOrEmpty(b))

\* Array.prototype.sort is stable: an element goes behind every element
\* already placed that does not compare greater than it.
InsertSorted(sorted, x) ==
  LET behind == {i \in 1..Len(sorted) : Compare(sorted[i], x) <= 0}
      k == IF behind = {} THEN 0
           ELSE CHOOSE i \in behind : \A j \in behind : j <= i
  IN SubSeq(sorted, 1, k) \o <<x>> \o SubSeq(sorted, k + 1, Len(sorted))

RECURSIVE SortFrom(_, _, _)
\* [...candidates].sort(comparator): the elements taken in list order.
SortFrom(list, i, sorted) ==
  IF i > Len(list) THEN sorted
  ELSE SortFrom(list, i + 1, InsertSorted(sorted, list[i]))

\* The candidate lists the page can hold, each record at its position.
PageLists ==
  UNION {{l \in [1..n -> SortRecords] : \A i \in 1..n : l[i].pos = i} : n \in 0..MaxCandidates}

\* The page holds a candidate list; nothing is rendered yet.
InitSort ==
  /\ pageCandidates \in PageLists
  /\ sortedCandidates = <<>>
  /\ sortPc = "list"

\* The render computes sortedCandidates from the list.
RenderSorted ==
  /\ sortPc = "list"
  /\ sortedCandidates' = SortFrom(pageCandidates, 1, <<>>)
  /\ sortPc' = "rendered"
  /\ UNCHANGED <<pageCandidates, notSort>>

\* Displayed order unused: the variables at their idle value.
IdleSort ==
  /\ pageCandidates = <<>>
  /\ sortedCandidates = <<>>
  /\ sortPc = "list"

(***************************************************************************)
(* Specifications                                                          *)
(***************************************************************************)

BoardInit == InitBoard /\ IdleCard /\ IdleChat /\ IdleResolver /\ IdleEval /\ IdleStatus /\ IdleInterview /\ IdleSort
SpecBoard == BoardInit /\ [][NextBoard]_vars

CardInit == InitCard /\ IdleBoard /\ IdleChat /\ IdleResolver /\ IdleEval /\ IdleStatus /\ IdleInterview /\ IdleSort
SpecCard == CardInit /\ [][NextCard]_vars

ChatInit == InitChat /\ IdleBoard /\ IdleCard /\ IdleResolver /\ IdleEval /\ IdleStatus /\ IdleInterview /\ IdleSort
SpecChat == ChatInit /\ [][NextChat]_vars

ResolverInit == InitResolver /\ IdleBoard /\ IdleCard /\ IdleChat /\ IdleEval /\ IdleStatus /\ IdleInterview /\ IdleSort
NextResolver == DetectCollisions
SpecResolver == ResolverInit /\ [][NextResolver]_vars

EvalInit == InitEval /\ IdleBoard /\ IdleCard /\ IdleChat /\ IdleResolver /\ IdleStatus /\ IdleInterview /\ IdleSort
NextEval == Evaluate
SpecEval == EvalInit /\ [][NextEval]_vars

StatusInit == InitStatus /\ IdleBoard /\ IdleCard /\ IdleChat /\ IdleResolver /\ IdleEval /\ IdleInterview /\ IdleSort
SpecStatus == StatusInit /\ [][NextStatus]_vars

InterviewInit == InitInterview /\ IdleBoard /\ IdleCard /\ IdleChat /\ IdleResolver /\ IdleEval /\ IdleStatus /\ IdleSort
SpecInterview == InterviewInit /\ [][NextInterview]_vars

SortInit == InitSort /\ IdleBoard /\ IdleCard /\ IdleChat /\ IdleResolver /\ IdleEval /\ IdleStatus /\ IdleInterview
NextSort == RenderSorted
SpecSort == SortInit /\ [][NextSort]_vars

(***************************************************************************)
(* Properties of the board                                                 *)
(***************************************************************************)

\* The column a drop target stands for: the column itself, or the column of
\* the card dropped on (Null when there is none).
TargetColumnOf(over) ==
  IF over \in COLUMN_IDS THEN over
  ELSE IF \E i \in 1..Len(candidates) : candidates[i].id = over
       THEN FindCandidate(candidates, over).column
       ELSE Null

\* The column the list holds for a candidate (Null when there is none).
CurrentColumnOf(id) ==
  IF \E i \in 1..Len(candidates) : candidates[i].id = id
  THEN FindCandidate(candidates, id).column
  ELSE Null

\* C1: a drag that ends on a target whose column is the dragged candidate's
\* current column (its own card included) issues no status request, triggers
\* no refetch and leaves the candidate list, the collaborator's records and
\* the notifications as they were.
C1_SameColumnDropIsNoOp ==
  [][\A over \in DroppableIds :
       (/\ handleDragEnd(over)
        /\ CurrentColumnOf(dragging) \in COLUMN_IDS
        /\ TargetColumnOf(over) = CurrentColumnOf(dragging))
       => UNCHANGED <<statusRequests, listRequests, candidates, serverCandidates, alerts>>]_vars

\* C1 witness: the only drag so far ended on the dragged card itself, and
\* nothing was sent, fetched or notified.
C1_Witness ==
  /\ gestures = 1
  /\ lastDrop.active \in CardIds
  /\ lastDrop.over = lastDrop.active
  /\ CurrentColumnOf(lastDrop.active) \in COLUMN_IDS
  /\ statusRequests = <<>>
  /\ listRequests = <<>>
  /\ alerts = 0

\* C2: when the status request of a move fails, the candidate list is left as
\* it is, no refetch is issued and exactly one notification is shown.
C2_FailedMoveLeavesBoard ==
  [][\A i \in 1..MaxStatusRequests :
       StatusFailure(i) =>
         /\ candidates' = candidates
         /\ listRequests' = listRequests
         /\ alerts' = alerts + 1]_vars

\* C2 witness: the one move of the run failed; the candidate is still listed
\* in a column other than the one it was dropped on.
C2_Witness ==
  /\ gestures = 1
  /\ alerts = 1
  /\ statusRequests = <<>>
  /\ listRequests = <<>>
  /\ lastDrop.over \in COLUMN_IDS
  /\ CurrentColumnOf(lastDrop.active) \in COLUMN_IDS \ {lastDrop.over}

\* The color of a column: one shade for outreach, the other for the rest.
ColorOfColumn(column) ==
  IF column = "outreach" THEN "amber-transparent" ELSE "amber-solid"

\* C11: a drag that ends on a target whose column differs from the dragged
\* candidate's current column sends one status request carrying that column
\* and the color of that column, whatever color the candidate had stored.
C11_MoveCarriesColumnColor ==
  [][\A over \in DroppableIds :
       (/\ handleDragEnd(over)
        /\ FindCandidate(candidates, dragging) # NoCandidate
        /\ TargetColumnOf(over) \in COLUMN_IDS
        /\ TargetColumnOf(over) # CurrentColumnOf(dragging))
       => statusRequests' =
            Append(statusRequests,
                   [candidateId |-> dragging,
                    body |-> [column |-> TargetColumnOf(over),
                              color |-> ColorOfColumn(TargetColumnOf(over))],
                    applied |-> FALSE])]_vars

\* C11 witness: a move to outreach is in flight for a candidate whose stored
\* color is amber-solid, and the request carries amber-transparent.
C11_Witness ==
  \E i \in 1..Len(statusRequests) :
    /\ statusRequests[i].body = [column |-> "outreach", color |-> "amber-transparent"]
    /\ FindCandidate(candidates, statusRequests[i].candidateId) # NoCandidate
    /\ FindCandidate(candidates, statusRequests[i].candidateId).color = "amber-solid"
    /\ ~statusRequests[i].applied

\* The columns of the board that show a candidate of the list.
ColumnsShowing(candidate) ==
  {col \in COLUMN_IDS : candidate \in Range(getCandidatesForColumn(candidates, col))}

\* C13: every candidate of the list is shown in exactly one of the three
\* columns of the board, and that column is the one the sort ranks it by (a
\* candidate whose column is unset counting as outreach).
C13_OneEffectiveColumn ==
  \A i \in 1..Len(candidates) :
    ColumnsShowing(candidates[i]) = {SortColumn(candidates[i])}

\* C14: the status request of a drag that ends on a card carries the column
\* of that card, the one of a drag that ends on a column carries that column,
\* and a drag that ends over nothing sends no request and leaves the list,
\* the collaborator's records, the refetches and the notifications alone.
C14_TargetResolution ==
  [][\A over \in {NoOver} \cup DroppableIds :
       handleDragEnd(over) =>
         /\ over = NoOver =>
              UNCHANGED <<statusRequests, listRequests, candidates, serverCandidates, alerts>>
         /\ statusRequests' # statusRequests =>
              /\ Len(statusRequests') = Len(statusRequests) + 1
              /\ over \in COLUMN_IDS =>
                   statusRequests'[Len(statusRequests')].body.column = over
              /\ over \in CardIds =>
                   statusRequests'[Len(statusRequests')].body.column =
                     FindCandidate(candidates, over).column]_vars

\* C14 witness: the only drag so far ended on the other card, and the move
\* in flight targets the column the list holds for that card.
C14_Witness ==
  /\ gestures = 1
  /\ lastDrop.over \in CardIds \ {lastDrop.active}
  /\ Len(statusRequests) = 1
  /\ statusRequests[1].candidateId = lastDrop.active
  /\ statusRequests[1].body.column = CurrentColumnOf(lastDrop.over)

\* C15: every status request of a drag carries one of the three columns, and
\* a drop whose target stands for no such column sends no request and leaves
\* the list, the collaborator's records, the refetches and the notifications
\* alone.
C15_OnlyValidColumnsSent ==
  /\ [](\A i \in 1..Len(statusRequests) : statusRequests[i].body.column \in COLUMN_IDS)
  /\ [][\A over \in {NoOver} \cup DroppableIds :
          (handleDragEnd(over) /\ TargetColumnOf(over) \notin COLUMN_IDS)
          => UNCHANGED <<statusRequests, listRequests, candidates, serverCandidates, alerts>>]_vars

\* C15 witness: a move to a valid column is in flight, and the drag after it
\* ended over nothing and added no request.
C15_Witness ==
  /\ gestures = 2
  /\ lastDrop.over = NoOver
  /\ Len(statusRequests) = 1
  /\ statusRequests[1].body.column \in COLUMN_IDS
  /\ alerts = 0

\* C16: at most one move request per candidate is in flight: once a drag has
\* sent a status request for a candidate, no other drag sends one for the
\* same candidate before the first has settled.
C16_OneMoveInFlight ==
  \A i, j \in 1..Len(statusRequests) :
    statusRequests[i].candidateId = statusRequests[j].candidateId => i = j

\* C30: a successful status mutation issues a refetch of the candidate list,
\* and a list response never takes the board from the list the collaborator
\* holds back to an older one: when the board shows the collaborator's list
\* and a response arrives, the board still shows it afterwards.
C30_RefetchKeepsBoardCurrent ==
  [][/\ \A i \in 1..MaxStatusRequests :
          StatusSuccess(i) =>
            /\ Len(listRequests') = Len(listRequests) + 1
            /\ ~listRequests'[Len(listRequests')].served
     /\ \A i \in 1..MaxListRequests :
          (ListResponse(i) /\ candidates = serverCandidates) =>
            candidates' = serverCandidates']_vars

(***************************************************************************)
(* Properties of the candidate card                                        *)
(***************************************************************************)

\* C3: a click on one checklist item flips exactly that item in the local
\* checklist and sends the whole new mapping in one status request; when that
\* request fails, the local checklist is set back to the mapping it was
\* immediately before the click.
C3_ToggleAndRollback ==
  [][/\ \A item \in ChecklistKeys :
          handleChecklistToggle(item) =>
            /\ checklist'[item] = ~checklist[item]
            /\ \A k \in ChecklistKeys \ {item} : checklist'[k] = checklist[k]
            /\ Len(checklistRequests') = Len(checklistRequests) + 1
            /\ SubSeq(checklistRequests', 1, Len(checklistRequests)) = checklistRequests
            /\ LET sent == checklistRequests'[Len(checklistRequests')]
               IN /\ DOMAIN sent.checklist = ChecklistKeys
                  /\ sent.checklist = checklist'
                  /\ sent.previous = checklist
     /\ \A i \in 1..MaxChecklistRequests :
          ChecklistFailure(i) => checklist' = checklistRequests[i].previous]_vars

\* C3 witness: the one click of the run failed before it reached the
\* collaborator, and the local checklist is back to every item false.
C3_Witness ==
  /\ toggles = 1
  /\ checklistRequests = <<>>
  /\ cardListRequests = <<>>
  /\ cardServerChecklist = NoChecklist
  /\ checklist = DefaultChecklist

\* C24: the rollback of a failed checklist toggle changes only the item of
\* that toggle; the local value of any other item, one toggled by an
\* overlapping click included, is what it was before the rollback.
C24_RollbackOnlyFailedItem ==
  [][\A i \in 1..MaxChecklistRequests :
       ChecklistFailure(i) =>
         \A k \in ChecklistKeys \ {checklistRequests[i].item} : checklist'[k] = checklist[k]]_vars

\* C29: when an interview upload from the card succeeds, the card's
\* screening_interview_completed item is true afterwards, whatever it was
\* before the upload.
C29_UploadMarksCompleted ==
  [][InterviewUploadSuccess => checklist'["screening_interview_completed"]]_vars

(***************************************************************************)
(* Properties of the evaluation chat                                       *)
(***************************************************************************)

\* The positions of the debounced saves among the requests in flight.
DebouncedSaves(requests) ==
  {i \in 1..Len(requests) : requests[i].kind = "save" /\ requests[i].via = "debounced"}

\* The positions of the requests of one kind among the requests in flight.
RequestsOfKind(requests, kind) == {i \in 1..Len(requests) : requests[i].kind = kind}

\* The last request sent.
LastRequest(requests) == requests[Len(requests)]

\* C4: a burst of changes to a non-empty transcript, each less than 400 ms
\* after the one before, gets exactly one debounced save: while the transcript
\* is non-empty either the timer armed by the last change is pending, holding
\* that transcript and due 400 ms after the change, or the one debounced save
\* of the burst has gone out; and a debounced save goes out only 400 ms after
\* the last change, one at a time, with the transcript of that moment.
C4_OneDebouncedSavePerBurst ==
  /\ [](Len(evaluationMessages) > 0 =>
          \/ /\ timer # NoTimer
             /\ timer.messages = evaluationMessages
             /\ timer.remaining = DebounceMs - burst.sinceChange
             /\ burst.saves = 0
          \/ /\ timer = NoTimer
             /\ burst.saves = 1)
  /\ [][Cardinality(DebouncedSaves(chatRequests')) > Cardinality(DebouncedSaves(chatRequests)) =>
          /\ Cardinality(DebouncedSaves(chatRequests')) = Cardinality(DebouncedSaves(chatRequests)) + 1
          /\ burst.sinceChange = DebounceMs
          /\ burst.saves = 0
          /\ evaluationMessages' = evaluationMessages
          /\ LastRequest(chatRequests').via = "debounced"
          /\ LastRequest(chatRequests').messages = evaluationMessages
          /\ timer' = NoTimer]_vars

\* C4 witness: the stored transcript was loaded and a question was sent while
\* the timer of the load was pending; no reply has come yet, and the one
\* debounced save of this burst of two changes is in flight with the
\* transcript that ends in the question.
C4_Witness ==
  /\ burst.changes = 2
  /\ burst.saves = 1
  /\ timer = NoTimer
  /\ Len(evaluationMessages) = 3
  /\ RequestsOfKind(chatRequests, "evaluate") # {}
  /\ \E i \in DebouncedSaves(chatRequests) : chatRequests[i].messages = evaluationMessages

\* C5: when an evaluate request succeeds, a save goes out in the same step,
\* whatever the state of the debounce timer and whether or not the chat view
\* is still open; it is addressed to the role the question was sent for and
\* carries the whole transcript of that question, ending with the user's
\* message followed by the assistant's reply.
C5_ImmediateSaveOnReply ==
  [][\A i \in 1..MaxChatRequests :
       EvaluateSuccess(i) =>
         LET req == chatRequests[i]
             sent == LastRequest(chatRequests')
             n == Len(sent.messages)
         IN /\ Cardinality(RequestsOfKind(chatRequests', "save")) =
                 Cardinality(RequestsOfKind(chatRequests, "save")) + 1
            /\ sent.kind = "save"
            /\ sent.via = "immediate"
            /\ sent.roleId = req.roleId
            /\ n = Len(req.messagesWithUser) + 1
            /\ SubSeq(sent.messages, 1, n - 1) = req.messagesWithUser
            /\ sent.messages[n - 1] = UserMessage(req.roleId)
            /\ sent.messages[n] = AssistantReply(req.roleId)]_vars

\* C5 witness: the reply came after the user left the evaluation tab, and its
\* immediate save is in flight with the question and the reply.
C5_Witness ==
  /\ activeTab # "evaluation"
  /\ navigations = 0
  /\ \E i \in RequestsOfKind(chatRequests, "save") :
       /\ chatRequests[i].via = "immediate"
       /\ ~chatRequests[i].viewOpen
       /\ LastRequest(chatRequests[i].messages) = AssistantReply("A")

\* C6: when the page switches to another role, the in-memory transcript is
\* empty and no debounce timer is pending after the switch, and no save
\* request ever carries a message of another role's transcript than the one
\* it is addressed to, also when an evaluate request sent under the old role
\* completes after the switch.
C6_RoleSwitchIsolation ==
  [][/\ role' # role => evaluationMessages' = <<>> /\ timer' = NoTimer
     /\ \A i \in RequestsOfKind(chatRequests', "save") :
          \A k \in 1..Len(chatRequests'[i].messages) :
            chatRequests'[i].messages[k].content[2] = chatRequests'[i].roleId]_vars

\* C7: a confirmed clear empties the in-memory transcript in the same step,
\* leaves no debounce timer pending, and sends exactly one delete request,
\* for the role on the page, and no save request.
C7_ClearDeletesOnce ==
  [][handleClearEvaluationChat =>
       /\ evaluationMessages' = <<>>
       /\ timer' = NoTimer
       /\ Len(chatRequests') = Len(chatRequests) + 1
       /\ SubSeq(chatRequests', 1, Len(chatRequests)) = chatRequests
       /\ LastRequest(chatRequests') = [kind |-> "delete", roleId |-> role]]_vars

\* C7 witness: the transcript was cleared while the debounce timer of its
\* last change was pending; the delete is in flight, no timer is pending and
\* no save went out.
C7_Witness ==
  /\ navigations = 0
  /\ evaluationMessages = <<>>
  /\ timer = NoTimer
  /\ burst.changes = 2
  /\ burst.saves = 0
  /\ RequestsOfKind(chatRequests, "delete") # {}
  /\ RequestsOfKind(chatRequests, "save") = {}

\* C17: when the reply of an evaluate request is flushed by an immediate
\* save, no debounce timer is left pending, so the reply causes no second,
\* debounced save of the same transcript 400 ms later.
C17_FlushCancelsTimer ==
  [][\A i \in 1..MaxChatRequests : EvaluateSuccess(i) => timer' = NoTimer]_vars

\* C18: every save request carries the whole transcript as it stands in
\* memory when the request goes out, and a save that reaches the collaborator
\* replaces the stored transcript of its role by its payload as a whole, so
\* that in whatever order saves complete the stored transcript is one of
\* those whole transcripts, in its order.
C18_SavesCarryWholeTranscript ==
  [][/\ Cardinality(RequestsOfKind(chatRequests', "save")) >
          Cardinality(RequestsOfKind(chatRequests, "save"))
        => /\ LastRequest(chatRequests').kind = "save"
           /\ LastRequest(chatRequests').messages = evaluationMessages'
     /\ \A i \in 1..MaxChatRequests :
          SaveArrives(i) =>
            chatStore' = [chatStore EXCEPT ![chatRequests[i].roleId] = chatRequests[i].messages]]_vars

\* C18 witness: two saves of the same role are in flight at once, the
\* immediate one and the debounced one after it, each with the whole
\* transcript of question and reply.
C18_Witness ==
  /\ navigations = 0
  /\ Len(chatRequests) = 2
  /\ chatRequests[1].kind = "save" /\ chatRequests[1].via = "immediate"
  /\ chatRequests[2].kind = "save" /\ chatRequests[2].via = "debounced"
  /\ chatRequests[1].messages = evaluationMessages
  /\ chatRequests[2].messages = evaluationMessages
  /\ Len(evaluationMessages) >= 2

\* C19: a send appends the user's message to the transcript; when its
\* evaluate request fails, exactly one assistant entry with an error text is
\* put after that message, and when it succeeds, exactly one assistant entry
\* with the reply: after a completed send the transcript is the one the
\* question was sent on, then the user's entry, then one assistant entry.
C19_ErrorEntryAppended ==
  [][/\ handleSend =>
          /\ evaluationMessages' = Append(evaluationMessages, UserMessage(role))
          /\ LastRequest(chatRequests').messagesWithUser = evaluationMessages'
     /\ \A i \in 1..MaxChatRequests :
          /\ EvaluateFailure(i) =>
               /\ evaluationMessages' =
                    Append(chatRequests[i].messagesWithUser, AssistantError(chatRequests[i].roleId))
               /\ LastRequest(evaluationMessages').role = "assistant"
               /\ LastRequest(evaluationMessages').content[1] = "error"
               /\ LastRequest(chatRequests[i].messagesWithUser).role = "user"
          /\ EvaluateSuccess(i) =>
               /\ evaluationMessages' =
                    Append(chatRequests[i].messagesWithUser, AssistantReply(chatRequests[i].roleId))
               /\ LastRequest(chatRequests[i].messagesWithUser).role = "user"]_vars

\* C19 witness: the one question of the run failed; the transcript is the
\* user's entry followed by the assistant's error entry.
C19_Witness ==
  /\ sends = 1
  /\ navigations = 0
  /\ RequestsOfKind(chatRequests, "evaluate") = {}
  /\ evaluationMessages = <<UserMessage("A"), AssistantError("A")>>

\* The assistant replies of a transcript, by position.
Replies(messages) ==
  {i \in 1..Len(messages) : messages[i].role = "assistant" /\ messages[i].content[1] = "response"}

\* The step is a confirmed clear: it puts a DELETE in flight.
ClearStep ==
  /\ Len(chatRequests') = Len(chatRequests) + 1
  /\ LastRequest(chatRequests').kind = "delete"

\* The step puts a save for the role shown in flight.
SaveStep ==
  /\ Len(chatRequests') = Len(chatRequests) + 1
  /\ LastRequest(chatRequests').kind = "save"
  /\ LastRequest(chatRequests').roleId = role

\* C23: while the page shows the same role and the user does not clear the
\* chat, every assistant reply of the in-memory transcript stays in it at its
\* position, and a save issued for that role carries every reply the
\* transcript holds - whatever tab switches, chat loads, refreshes of the
\* role's data and request completions come in between.
C23_ReplyStays ==
  [][(role' = role /\ ~ClearStep) =>
       /\ Replies(evaluationMessages) \subseteq Replies(evaluationMessages')
       /\ SaveStep =>
            Replies(evaluationMessages) \subseteq Replies(LastRequest(chatRequests').messages)]_vars

\* The step puts a save in flight, for whatever role.
AnySaveStep ==
  /\ Len(chatRequests') = Len(chatRequests) + 1
  /\ LastRequest(chatRequests').kind = "save"

\* C28: from a confirmed clear until the user sends the next question the
\* in-memory transcript is empty and no save request is issued, whatever
\* request that was in flight at the clear completes in between.
C28_ClearedStaysEmpty ==
  [][cleared' => (evaluationMessages' = <<>> /\ ~AnySaveStep)]_vars

(***************************************************************************)
(* Properties of the collision resolver                                    *)
(***************************************************************************)

\* Columns other than the origin column in the collision list of the frame.
OtherColumnsColliding ==
  LET selected == AllCollisions(rectCollisions, pointerCollisions, cornerCollisions)
  IN {selected[i] : i \in 1..Len(selected)} \cap (COLUMN_IDS \ {activeColumn})

\* C8: when the frame's collision list holds a column droppable other than
\* the dragged candidate's column, the first element of the result is such a
\* column; when only one such column collides (an empty destination column,
\* say), it is that column.
C8_CrossColumnBias ==
  (resolverPc = "resolved" /\ OtherColumnsColliding # {})
    => /\ collisions # <<>>
       /\ collisions[1] \in OtherColumnsColliding

\* C8 witness: a card collides first and a destination column later; the
\* column was promoted to the front.
C8_Witness ==
  /\ resolverPc = "resolved"
  /\ rectCollisions # <<>>
  /\ rectCollisions[1] \in CardIds
  /\ OtherColumnsColliding # {}
  /\ collisions[1] \in COLUMN_IDS \ {activeColumn}

\* The tier a frame's result has to come from: the rectangle-intersection
\* tier when it reports anything, else the pointer-within tier when it
\* reports anything, else the closest-corners tier.
FirstNonEmptyTier ==
  CASE rectCollisions # <<>> -> rectCollisions
    [] rectCollisions = <<>> /\ pointerCollisions # <<>> -> pointerCollisions
    [] OTHER -> cornerCollisions

\* C22: every collision of the result is one of the first non-empty tier in
\* the order rectangle-intersection, pointer-within, closest-corners, and the
\* result is empty only when all three tiers are empty.
C22_FirstNonEmptyTier ==
  resolverPc = "resolved" =>
    /\ Range(collisions) \subseteq Range(FirstNonEmptyTier)
    /\ collisions = <<>> <=>
         (rectCollisions = <<>> /\ pointerCollisions = <<>> /\ cornerCollisions = <<>>)

\* C22 witness: the rectangle tier is empty, the pointer tier and the corner
\* tier report different droppables, and the result is the pointer tier's.
C22_Witness ==
  /\ resolverPc = "resolved"
  /\ rectCollisions = <<>>
  /\ pointerCollisions # <<>>
  /\ cornerCollisions # <<>>
  /\ Range(pointerCollisions) \cap Range(cornerCollisions) = {}
  /\ collisions # <<>>
  /\ Range(collisions) \subseteq Range(pointerCollisions)

(***************************************************************************)
(* Properties of the eligibility filter                                    *)
(***************************************************************************)

\* An interview is complete: completed is true, or the transcription is
\* non-empty, or the summary is non-empty.
InterviewComplete(interview) ==
  /\ interview # NoInterview
  /\ \/ interview.interview_completed = "true"
     \/ interview.transcription = "text"
     \/ interview.summary = "text"

C10_SentToClientExcluded ==
  evalPc = "filtered" =>
    \A i \in DOMAIN all_candidates :
      all_candidates[i].sent_to_client =>
        /\ i \notin evaluation_candidates
        /\ i \in sent_to_client_candidates

\* C10 witness: a sent-to-client candidate that meets every other condition
\* of the active set is kept out of it.
C10_Witness ==
  /\ evalPc = "filtered"
  /\ \E i \in DOMAIN all_candidates :
       /\ all_candidates[i].sent_to_client
       /\ all_candidates[i].column = "evaluation"
       /\ ~all_candidates[i].not_pushing_forward
       /\ InterviewComplete(all_candidates[i].interview)
       /\ i \notin evaluation_candidates
       /\ i \in sent_to_client_candidates

(***************************************************************************)
(* Properties of the stored status                                         *)
(***************************************************************************)

\* C12: the color the core has written for a candidate is determined by its
\* column and its two flags: two candidates whose colors the core has written
\* and that agree on column, sent_to_client and not_pushing_forward have the
\* same stored color.
C12_StoredColorDetermined ==
  \A a, b \in CardIds :
    (/\ statusRecords[a].written
     /\ statusRecords[b].written
     /\ statusRecords[a].column = statusRecords[b].column
     /\ statusRecords[a].sent_to_client = statusRecords[b].sent_to_client
     /\ statusRecords[a].not_pushing_forward = statusRecords[b].not_pushing_forward)
    => statusRecords[a].color = statusRecords[b].color

\* C25: every failed status mutation - a move, a flag change, marking
\* outreach as sent - has been surfaced with a notification: as many alerts
\* were shown as mutations failed.
C25_FailuresSurfaced == mutationAlerts = mutationFailures

\* C26: no candidate has both not_pushing_forward and sent_to_client set.
C26_AtMostOneFlag ==
  \A id \in CardIds :
    ~(statusRecords[id].not_pushing_forward /\ statusRecords[id].sent_to_client)

\* C27: for a candidate whose not_pushing_forward is set no outreach action
\* is carried out - neither generating an outreach message nor marking
\* outreach as sent - and setting the flag leaves its column as it was.
C27_NoOutreachWhenNotPushing ==
  [][\A id \in CardIds :
       /\ statusRecords[id].not_pushing_forward =>
            /\ ~handleGenerateOutreach(id)
            /\ ~handleMarkOutreachSent(id)
       /\ (~statusRecords[id].not_pushing_forward /\ statusRecords'[id].not_pushing_forward) =>
            statusRecords'[id].column = statusRecords[id].column]_vars

(***************************************************************************)
(* Properties of the interview helper                                      *)
(***************************************************************************)

\* The view the required fields should have for a list and a mapping: one
\* entry per name of the list in its order, collected with the response as
\* value when the mapping holds a non-empty response of that name.
RequiredFieldsView(list, responses) ==
  [i \in 1..Len(list) |->
     IF responses[list[i]] \notin {Null, ""}
     THEN [field |-> list[i], collected |-> TRUE, value |-> responses[list[i]]]
     ELSE [field |-> list[i], collected |-> FALSE, value |-> Null]]

\* The response mapping of the interview the helper holds.
LocalResponses ==
  IF interviewState = NoInterview THEN NoResponses ELSE ResponsesOf(interviewState)

\* C20: once the interview fetches have completed, whatever fetches, uploads
\* and manual saves came before, the required-fields view has one entry per
\* field name of the role's list in the list's order, collected with the
\* response as value exactly when the interview held holds a non-empty
\* response of that name, else not collected and without a value.
C20_RequiredFieldsView ==
  RequestsOfKind(interviewRequests, "fetch") = {}
    => requiredFields = RequiredFieldsView(roleFields, LocalResponses)

\* A state in which the view is right on a list of two fields: after an
\* upload the first has an empty response and is not collected, the second
\* is collected with its answer.
C20_ViewAfterUpload ==
  /\ interviewRequests = <<>>
  /\ interviewOps >= 1
  /\ roleFields = <<"notice_period", "expected_salary">>
  /\ interviewState # NoInterview
  /\ LocalResponses = [f \in FieldNames |-> IF f = "notice_period" THEN "" ELSE "3 months"]
  /\ requiredFields = <<[field |-> "notice_period", collected |-> FALSE, value |-> Null],
                        [field |-> "expected_salary", collected |-> TRUE, value |-> "3 months"]>>

(***************************************************************************)
(* Properties of the displayed candidate order                             *)
(***************************************************************************)

\* The rank the displayed order gives a column: outreach and an unset column
\* 0, follow-up 1, evaluation 2, any other value 3.
DisplayRank(column) ==
  CASE column \in {"outreach", Null, ""} -> 0
    [] column = "follow-up" -> 1
    [] column = "evaluation" -> 2
    [] OTHER -> 3

\* a is not behind b in the order by column rank, then by name.
NotBehind(a, b) ==
  \/ DisplayRank(a.column) < DisplayRank(b.column)
  \/ /\ DisplayRank(a.column) = DisplayRank(b.column)
     /\ localeCompare(NameOrEmpty(a), NameOrEmpty(b)) <= 0

\* C21: the displayed order is a permutation of the candidate list, sorted by
\* column rank (outreach 0, follow-up 1, evaluation 2, other 3, unset as
\* outreach) and then by name; candidates equal on both keys keep the relative
\* order they have in the list.
C21_DisplayedOrder ==
  sortPc = "rendered" =>
    /\ Len(sortedCandidates) = Len(pageCandidates)
    /\ \A i \in 1..Len(pageCandidates) :
         \E j \in 1..Len(sortedCandidates) : sortedCandidates[j] = pageCandidates[i]
    /\ \A i, j \in 1..Len(sortedCandidates) :
         i < j =>
           /\ NotBehind(sortedCandidates[i], sortedCandidates[j])
           /\ NotBehind(sortedCandidates[j], sortedCandidates[i]) =>
                sortedCandidates[i].pos < sortedCandidates[j].pos

\* C21 witness: a rendered list of three in which the sort moved an
\* unset-column candidate in front of an evaluation one, ranked an unknown
\* column last and kept two candidates equal on both keys in list order.
C21_Witness ==
  /\ sortPc = "rendered"
  /\ Len(sortedCandidates) = 3
  /\ sortedCandidates # pageCandidates
  /\ \E i, j \in 1..3 :
       /\ i < j
       /\ pageCandidates[i].column = "evaluation"
       /\ pageCandidates[j].column = Null
  /\ \E i, j \in 1..3 :
       /\ i < j
       /\ sortedCandidates[i].column = sortedCandidates[j].column
       /\ sortedCandidates[i].name = sortedCandidates[j].name

====
